---- MODULE Spec2Model ----
(***************************************************************************)
(* Model of the YakirOS graph-resolver supervisor: the capability         *)
(* registry (capability.c), the component state machine (component.c),   *)
(* the resolver (graph.c) and the PID-1 event loop (graph-resolver.c).   *)
(*                                                                         *)
(* Table slots are numbered from 1 (slot 1 is C index 0, the kernel      *)
(* pseudo-component); "no capability index" (-1 in C) is 0 here.         *)
(* pid -1 is "no process", pid 0 is the kernel pseudo-component.         *)
(***************************************************************************)
EXTENDS Integers, Sequences, FiniteSets, TLC

\* ---------------------------------------------------------------- bounds
\* process ids handed out by fork(): 1 .. MaxPid, never reused
MaxPid == 3
\* the supervisor is observed from StartTime to StartTime + MaxElapsed
MaxElapsed == 10
\* time(NULL) at boot; large, so that last_restart = 0 lies far in the past
StartTime == 100
\* seconds that may pass in one epoll_wait
TimeSteps == {0, MaxElapsed}
\* the largest restart threshold of the health-checked declarations
MaxThreshold == 3
\* the number of start attempts in a run of restarts
MaxRestarts == 6

\* ------------------------------------------------- enumerations (toml.h)
COMP_TYPE_SERVICE == "SERVICE"
COMP_TYPE_ONESHOT == "ONESHOT"

COMP_INACTIVE == "INACTIVE"
COMP_STARTING == "STARTING"
COMP_READY_WAIT == "READY_WAIT"
COMP_ACTIVE == "ACTIVE"
COMP_DEGRADED == "DEGRADED"
COMP_FAILED == "FAILED"
COMP_ONESHOT_DONE == "ONESHOT_DONE"

HANDOFF_NONE == "none"
HANDOFF_FD_PASSING == "fd-passing"
HANDOFF_CHECKPOINT == "checkpoint"

READINESS_NONE == "none"
READINESS_FILE == "file"

early_caps ==
  << "kernel.syscalls", "kernel.memory", "kernel.scheduling",
     "filesystem.proc", "filesystem.sys", "filesystem.dev",
     "filesystem.run", "filesystem.devpts" >>

\* ------------------------------------------------------------- utilities
Range(s) == {s[k] : k \in DOMAIN s}

Orders2 == { <<1, 2>>, <<2, 1>> }

\* ------------------------------------------ capability registry (capability.c)
capability_index(caps, name) ==
  IF \E k \in DOMAIN caps : caps[k].name = name
  THEN CHOOSE k \in DOMAIN caps :
         /\ caps[k].name = name
         /\ \A j \in DOMAIN caps : caps[j].name = name => k <= j
  ELSE 0

capability_active(caps, name) ==
  LET idx == capability_index(caps, name)
  IN  idx > 0 /\ caps[idx].active

\* capability.h: MAX_CAPABILITIES
MAX_CAPABILITIES == 512

\* a capability_register() that takes a new slot for every call
capability_register_appending(caps, name, provider_idx) ==
  IF Len(caps) >= MAX_CAPABILITIES THEN caps
  ELSE Append(caps, [name |-> name, active |-> TRUE, degraded |-> FALSE,
                     provider_idx |-> provider_idx])

\* capability_register(name, provider_idx): an unknown name takes the next
\* slot, unless the table is full: then the call logs and returns
capability_register(caps, name, provider_idx) ==
  LET idx == capability_index(caps, name)
  IN  IF idx = 0
      THEN IF Len(caps) >= MAX_CAPABILITIES THEN caps
           ELSE Append(caps, [name |-> name, active |-> TRUE, degraded |-> FALSE,
                              provider_idx |-> provider_idx])
      ELSE [caps EXCEPT ![idx].active = TRUE, ![idx].provider_idx = provider_idx]

capability_withdraw(caps, name) ==
  LET idx == capability_index(caps, name)
  IN  IF idx > 0 THEN [caps EXCEPT ![idx].active = FALSE] ELSE caps

capability_mark_degraded(caps, name, flag) ==
  LET idx == capability_index(caps, name)
  IN  IF idx > 0 THEN [caps EXCEPT ![idx].degraded = flag] ELSE caps

\* for (i = 0; i < n_provides; i++) capability_register(provides[i], idx)
RECURSIVE RegisterAll(_, _, _)
RegisterAll(caps, provides, idx) ==
  IF provides = << >> THEN caps
  ELSE RegisterAll(capability_register(caps, Head(provides), idx), Tail(provides), idx)

\* for (i = 0; i < n_provides; i++) capability_withdraw(provides[i])
RECURSIVE WithdrawAll(_, _)
WithdrawAll(caps, provides) ==
  IF provides = << >> THEN caps
  ELSE WithdrawAll(capability_withdraw(caps, Head(provides)), Tail(provides))

RECURSIVE MarkDegradedAll(_, _, _)
MarkDegradedAll(caps, provides, flag) ==
  IF provides = << >> THEN caps
  ELSE MarkDegradedAll(capability_mark_degraded(caps, Head(provides), flag),
                       Tail(provides), flag)

\* ------------------------------------------------ declarations (toml.c)
\* parse_component: a freshly parsed record with its defaults
parse_component(d) ==
  [ name |-> d.name, type |-> d.type, handoff |-> d.handoff,
    requires |-> d.requires, provides |-> d.provides,
    readiness_method |-> d.readiness_method,
    readiness_timeout |-> d.readiness_timeout,
    health_check |-> d.health_check,
    health_interval |-> d.health_interval,
    health_fail_threshold |-> d.health_fail_threshold,
    health_restart_threshold |-> d.health_restart_threshold,
    state |-> COMP_INACTIVE, pid |-> -1,
    restart_count |-> 0, last_restart |-> 0, ready_wait_start |-> 0,
    health_consecutive_failures |-> 0, last_health_check |-> 0 ]

\* register_early_capabilities: the kernel pseudo-component record
kernel_component ==
  [ name |-> "kernel", type |-> COMP_TYPE_SERVICE, handoff |-> HANDOFF_NONE,
    requires |-> << >>, provides |-> << >>,
    readiness_method |-> READINESS_NONE, readiness_timeout |-> 0,
    health_check |-> FALSE, health_interval |-> 0,
    health_fail_threshold |-> 0, health_restart_threshold |-> 0,
    state |-> COMP_ACTIVE, pid |-> 0,
    restart_count |-> 0, last_restart |-> 0, ready_wait_start |-> 0,
    health_consecutive_failures |-> 0, last_health_check |-> 0 ]

\* capability_init() followed by register_early_capabilities(): the registry
\* holding the built-in capabilities, provided by slot 1
early_registry == RegisterAll(<< >>, early_caps, 1)

\* A declaration file as the loader sees it
Decl(name, type, requires, provides, readiness, handoff, health) ==
  [ name |-> name, type |-> type, handoff |-> handoff,
    requires |-> requires, provides |-> provides,
    readiness_method |-> readiness,
    readiness_timeout |-> 10,
    health_check |-> health, health_interval |-> 5,
    health_fail_threshold |-> 1, health_restart_threshold |-> 2 ]

Svc(name, requires, provides) ==
  Decl(name, COMP_TYPE_SERVICE, requires, provides, READINESS_NONE, HANDOFF_NONE, FALSE)

\* The declaration directories considered: a provider A of capability "a"
\* and a dependent B, A being in turn a service with checkpoint handoff, a
\* service behind a readiness file with fd-passing handoff, a oneshot, and a
\* health-checked service
DeclSets ==
  { << Decl("A", COMP_TYPE_SERVICE, << >>, <<"a">>, READINESS_NONE,
            HANDOFF_CHECKPOINT, FALSE),
       Svc("B", <<"a">>, <<"b">>) >>,
    << Decl("A", COMP_TYPE_SERVICE, <<"kernel.syscalls">>, <<"a">>, READINESS_FILE,
            HANDOFF_FD_PASSING, FALSE),
       Svc("B", <<"a">>, <<"b">>) >>,
    << Decl("A", COMP_TYPE_ONESHOT, << >>, <<"a">>, READINESS_NONE, HANDOFF_NONE, FALSE),
       Svc("B", <<"a">>, <<"b">>) >>,
    << Decl("A", COMP_TYPE_SERVICE, << >>, <<"a">>, READINESS_NONE, HANDOFF_NONE, TRUE),
       Svc("B", <<"a">>, <<"b">>) >> }

\* load_components over a directory listing
load_components(dir) == [k \in DOMAIN dir |-> parse_component(dir[k])]

\* ------------------------------------------------------ component.c helpers
requirements_met(caps, comp) ==
  \A k \in DOMAIN comp.requires : capability_active(caps, comp.requires[k])

\* fork(): the next unused process id, or -1 once the pid space is exhausted
fork(npid) == IF npid <= MaxPid THEN npid ELSE -1

\* component_start(idx) at time t, pid being the result of its fork().
\* Yields the new table and registry, the return code and whether it forked.
component_start(comps, caps, idx, t, pid) ==
  LET comp == comps[idx]
  IN  IF t - comp.last_restart < 30 /\ comp.restart_count >= 5
      THEN [components |-> comps, capabilities |-> caps, rc |-> -1, forked |-> FALSE]
      ELSE IF pid < 0
      THEN [components |-> comps, capabilities |-> caps, rc |-> -1, forked |-> FALSE]
      ELSE IF comp.readiness_method = READINESS_NONE
      THEN [components |->
              [comps EXCEPT ![idx] = [comp EXCEPT !.pid = pid,
                                                  !.restart_count = @ + 1,
                                                  !.last_restart = t,
                                                  !.state = COMP_ACTIVE]],
            capabilities |->
              IF comp.type = COMP_TYPE_SERVICE
              THEN RegisterAll(caps, comp.provides, idx) ELSE caps,
            rc |-> 0, forked |-> TRUE]
      ELSE [components |->
              [comps EXCEPT ![idx] = [comp EXCEPT !.pid = pid,
                                                  !.restart_count = @ + 1,
                                                  !.last_restart = t,
                                                  !.state = COMP_READY_WAIT,
                                                  !.ready_wait_start = t]],
            capabilities |-> caps, rc |-> 0, forked |-> TRUE]

\* <sys/wait.h> on a wait status: exit code c is c * 256, death by signal s
\* is s (below 128)
WIFEXITED(status) == status % 128 = 0
WEXITSTATUS(status) == (status \div 256) % 256

\* component_exited() whose service branch keeps the pid and withdraws
\* nothing when the service had not become ready
component_exited_unready(comps, caps, idx, status) ==
  LET comp == comps[idx]
  IN  IF comp.type = COMP_TYPE_ONESHOT
      THEN IF WIFEXITED(status) /\ WEXITSTATUS(status) = 0
           THEN [components |-> [comps EXCEPT ![idx].state = COMP_ONESHOT_DONE],
                 capabilities |-> RegisterAll(caps, comp.provides, idx)]
           ELSE [components |-> [comps EXCEPT ![idx].state = COMP_FAILED],
                 capabilities |-> caps]
      ELSE IF comp.state = COMP_READY_WAIT
      THEN [components |-> [comps EXCEPT ![idx].state = COMP_FAILED],
            capabilities |-> caps]
      ELSE [components |-> [comps EXCEPT ![idx].state = COMP_FAILED, ![idx].pid = -1],
            capabilities |-> WithdrawAll(caps, comp.provides)]

\* component_exited() testing WEXITSTATUS(status) == 0 without WIFEXITED
component_exited_any_zero(comps, caps, idx, status) ==
  LET comp == comps[idx]
  IN  IF comp.type = COMP_TYPE_ONESHOT
      THEN IF WEXITSTATUS(status) = 0
           THEN [components |-> [comps EXCEPT ![idx].state = COMP_ONESHOT_DONE],
                 capabilities |-> RegisterAll(caps, comp.provides, idx)]
           ELSE [components |-> [comps EXCEPT ![idx].state = COMP_FAILED],
                 capabilities |-> caps]
      ELSE [components |-> [comps EXCEPT ![idx].state = COMP_FAILED, ![idx].pid = -1],
            capabilities |-> WithdrawAll(caps, comp.provides)]

\* component_exited(idx, status)
component_exited(comps, caps, idx, status) ==
  LET comp == comps[idx]
  IN  IF comp.type = COMP_TYPE_ONESHOT
      THEN IF WIFEXITED(status) /\ WEXITSTATUS(status) = 0
           THEN [components |-> [comps EXCEPT ![idx].state = COMP_ONESHOT_DONE],
                 capabilities |-> RegisterAll(caps, comp.provides, idx)]
           ELSE [components |-> [comps EXCEPT ![idx].state = COMP_FAILED],
                 capabilities |-> caps]
      ELSE [components |-> [comps EXCEPT ![idx].state = COMP_FAILED, ![idx].pid = -1],
            capabilities |-> WithdrawAll(caps, comp.provides)]

\* check_readiness_timeout(idx): the timeout in force
readiness_timeout_of(comp) ==
  IF comp.readiness_timeout > 0 THEN comp.readiness_timeout ELSE 30

\* component_ready(idx)
component_ready(comps, caps, idx) ==
  LET comp == comps[idx]
  IN  IF comp.state # COMP_READY_WAIT
      THEN [components |-> comps, capabilities |-> caps]
      ELSE [components |-> [comps EXCEPT ![idx].state = COMP_ACTIVE],
            capabilities |->
              IF comp.type = COMP_TYPE_SERVICE
              THEN RegisterAll(caps, comp.provides, idx) ELSE caps]

\* check_all_readiness(): slots k..n in order; ready is the set of slots whose
\* readiness predicate evaluates true on this poll.  killed is the set of
\* pids that check_readiness_timeout sent SIGTERM.
RECURSIVE check_all_readiness(_, _, _, _, _)
check_all_readiness(comps, caps, k, t, ready) ==
  IF k > Len(comps) THEN [components |-> comps, capabilities |-> caps, killed |-> {}]
  ELSE LET comp == comps[k]
       IN  IF comp.state # COMP_READY_WAIT
           THEN check_all_readiness(comps, caps, k + 1, t, ready)
           ELSE IF t - comp.ready_wait_start >= readiness_timeout_of(comp)
           THEN LET rest == check_all_readiness([comps EXCEPT ![k].state = COMP_FAILED],
                                                caps, k + 1, t, ready)
                IN  [rest EXCEPT !.killed = IF comp.pid > 0 THEN @ \cup {comp.pid} ELSE @]
           ELSE IF k \in ready \/ comp.readiness_method = READINESS_NONE
           THEN LET r == component_ready(comps, caps, k)
                IN  check_all_readiness(r.components, r.capabilities, k + 1, t, ready)
           ELSE check_all_readiness(comps, caps, k + 1, t, ready)

\* handle_health_result() comparing the restart threshold with > instead of >=
handle_health_result_late(comps, caps, idx, result, t) ==
  LET comp == [comps[idx] EXCEPT !.last_health_check = t]
      failures == comp.health_consecutive_failures + 1
  IN  IF result = 0
      THEN IF comp.state = COMP_DEGRADED
           THEN [components |->
                   [comps EXCEPT ![idx] = [comp EXCEPT !.state = COMP_ACTIVE,
                                                       !.health_consecutive_failures = 0]],
                 capabilities |-> MarkDegradedAll(caps, comp.provides, FALSE),
                 killed |-> {}]
           ELSE [components |->
                   [comps EXCEPT ![idx] = [comp EXCEPT !.health_consecutive_failures = 0]],
                 capabilities |-> caps, killed |-> {}]
      ELSE IF comp.state = COMP_ACTIVE /\ failures >= comp.health_fail_threshold
      THEN [components |->
              [comps EXCEPT ![idx] = [comp EXCEPT !.state = COMP_DEGRADED,
                                                  !.health_consecutive_failures = failures]],
            capabilities |-> MarkDegradedAll(caps, comp.provides, TRUE),
            killed |-> {}]
      ELSE IF comp.state = COMP_DEGRADED /\ failures > comp.health_restart_threshold
      THEN [components |->
              [comps EXCEPT ![idx] = [comp EXCEPT !.state = COMP_FAILED,
                                                  !.pid = -1,
                                                  !.health_consecutive_failures = 0]],
            capabilities |-> WithdrawAll(caps, comp.provides),
            killed |-> IF comp.pid > 0 THEN {comp.pid} ELSE {}]
      ELSE [components |->
              [comps EXCEPT ![idx] = [comp EXCEPT !.health_consecutive_failures = failures]],
            capabilities |-> caps, killed |-> {}]

\* handle_health_result(idx, result) at time t; result 0 is a pass, any other
\* value (failure, timeout) takes the same branch.  killed is the set of pids
\* sent SIGTERM.
handle_health_result(comps, caps, idx, result, t) ==
  LET comp == [comps[idx] EXCEPT !.last_health_check = t]
      failures == comp.health_consecutive_failures + 1
  IN  IF result = 0
      THEN IF comp.state = COMP_DEGRADED
           THEN [components |->
                   [comps EXCEPT ![idx] = [comp EXCEPT !.state = COMP_ACTIVE,
                                                       !.health_consecutive_failures = 0]],
                 capabilities |-> MarkDegradedAll(caps, comp.provides, FALSE),
                 killed |-> {}]
           ELSE [components |->
                   [comps EXCEPT ![idx] = [comp EXCEPT !.health_consecutive_failures = 0]],
                 capabilities |-> caps, killed |-> {}]
      ELSE IF comp.state = COMP_ACTIVE /\ failures >= comp.health_fail_threshold
      THEN [components |->
              [comps EXCEPT ![idx] = [comp EXCEPT !.state = COMP_DEGRADED,
                                                  !.health_consecutive_failures = failures]],
            capabilities |-> MarkDegradedAll(caps, comp.provides, TRUE),
            killed |-> {}]
      ELSE IF comp.state = COMP_DEGRADED /\ failures >= comp.health_restart_threshold
      THEN [components |->
              [comps EXCEPT ![idx] = [comp EXCEPT !.state = COMP_FAILED,
                                                  !.pid = -1,
                                                  !.health_consecutive_failures = 0]],
            capabilities |-> WithdrawAll(caps, comp.provides),
            killed |-> IF comp.pid > 0 THEN {comp.pid} ELSE {}]
      ELSE [components |->
              [comps EXCEPT ![idx] = [comp EXCEPT !.health_consecutive_failures = failures]],
            capabilities |-> caps, killed |-> {}]

\* check_all_health(): which slots are probed on this tick
health_due(comp, t) ==
  /\ comp.state \in {COMP_ACTIVE, COMP_DEGRADED}
  /\ comp.health_check
  /\ ~ ( comp.last_health_check > 0
         /\ t - comp.last_health_check <
              (IF comp.health_interval > 0 THEN comp.health_interval ELSE 60) )

\* check_all_health(): slots k..n in order; results[k] is the outcome of the probe
RECURSIVE check_all_health(_, _, _, _, _)
check_all_health(comps, caps, k, t, results) ==
  IF k > Len(comps) THEN [components |-> comps, capabilities |-> caps]
  ELSE IF health_due(comps[k], t)
       THEN LET r == handle_health_result(comps, caps, k, results[k], t)
            IN  check_all_health(r.components, r.capabilities, k + 1, t, results)
       ELSE check_all_health(comps, caps, k + 1, t, results)

\* check_all_oom_events(): slots k..n in order; oom is the set of slots whose
\* cgroup reports oom_kill > 0
RECURSIVE check_all_oom_events(_, _, _, _)
check_all_oom_events(comps, caps, k, oom) ==
  IF k > Len(comps) THEN [components |-> comps, capabilities |-> caps]
  ELSE IF comps[k].state \notin {COMP_INACTIVE, COMP_FAILED} /\ k \in oom
       THEN check_all_oom_events(
              [comps EXCEPT ![k].state = COMP_FAILED, ![k].pid = -1],
              WithdrawAll(caps, comps[k].provides), k + 1, oom)
       ELSE check_all_oom_events(comps, caps, k + 1, oom)

\* reap_children(): zs is the sequence of <<pid, status>> that waitpid(-1)
\* returns; each is dispatched to the first slot holding that pid
RECURSIVE reap_children(_, _, _)
reap_children(comps, caps, zs) ==
  IF zs = << >> THEN [components |-> comps, capabilities |-> caps]
  ELSE LET pid == Head(zs)[1]
           status == Head(zs)[2]
           hit == {k \in DOMAIN comps : comps[k].pid = pid}
       IN  IF hit = {} THEN reap_children(comps, caps, Tail(zs))
           ELSE LET idx == CHOOSE k \in hit : \A j \in hit : k <= j
                    r == component_exited(comps, caps, idx, status)
                IN  reap_children(r.components, r.capabilities, Tail(zs))

\* handle_inotify(): restore pid/state by name into the reloaded table,
\* slots k..n in order, re-registering for ACTIVE and ONESHOT_DONE
RECURSIVE restore_states(_, _, _, _)
restore_states(comps, caps, k, old) ==
  IF k > Len(comps) THEN [components |-> comps, capabilities |-> caps]
  ELSE LET same == {j \in DOMAIN old : old[j].name = comps[k].name}
       IN  IF same = {} THEN restore_states(comps, caps, k + 1, old)
           ELSE LET j == CHOOSE x \in same : \A y \in same : x <= y
                    c2 == [comps EXCEPT ![k].pid = old[j].pid, ![k].state = old[j].state]
                IN  restore_states(
                      c2,
                      IF old[j].state \in {COMP_ACTIVE, COMP_ONESHOT_DONE}
                      THEN RegisterAll(caps, comps[k].provides, k) ELSE caps,
                      k + 1, old)

\* component_upgrade / component_restore: for (i...) strcmp(components[i].name, name);
\* 0 when no slot carries the name
component_index(comps, name) ==
  IF \E k \in DOMAIN comps : comps[k].name = name
  THEN CHOOSE k \in DOMAIN comps :
         /\ comps[k].name = name
         /\ \A j \in DOMAIN comps : comps[j].name = name => k <= j
  ELSE 0

\* upgrade_with_checkpoint(), step "update component record": new_pid is the
\* process criu restored
upgrade_with_checkpoint(comps, idx, t, new_pid) ==
  [comps EXCEPT ![idx].pid = new_pid,
                ![idx].state = IF comps[idx].readiness_method = READINESS_NONE
                               THEN COMP_ACTIVE ELSE COMP_READY_WAIT,
                ![idx].ready_wait_start = t]

\* upgrade_with_fd_passing() whose step 5 forgets to record the new pid
upgrade_with_fd_passing_old_pid(comps, idx, t, new_pid) ==
  [comps EXCEPT ![idx].state = IF comps[idx].readiness_method = READINESS_NONE
                               THEN COMP_ACTIVE ELSE COMP_READY_WAIT,
                ![idx].ready_wait_start = t]

\* upgrade_with_fd_passing(), step 5: new_pid is the forked new instance
upgrade_with_fd_passing(comps, idx, t, new_pid) ==
  [comps EXCEPT ![idx].pid = new_pid,
                ![idx].state = IF comps[idx].readiness_method = READINESS_NONE
                               THEN COMP_ACTIVE ELSE COMP_READY_WAIT,
                ![idx].ready_wait_start = t]

\* upgrade_with_restart(): withdraw, terminate and wait for the old process,
\* reset the record, then component_start(idx); pid is the result of the
\* fork() in component_start
upgrade_with_restart(comps, caps, idx, t, pid) ==
  component_start(
    [comps EXCEPT ![idx].pid = 0, ![idx].state = COMP_INACTIVE,
                  ![idx].restart_count = 0],
    WithdrawAll(caps, comps[idx].provides), idx, t, pid)

FdOutcomes == {"ok", "no_socketpair", "no_handoff"}

CriuOutcomes == {"unsupported", "fails", "ok"}

\* component_upgrade() whose HANDOFF_CHECKPOINT case, after a checkpoint that
\* failed, jumps to the restart instead of falling through to fd-passing
component_upgrade_no_fallthrough(st, name, t, criu, fd) ==
  LET idx == component_index(st.components, name)
      none == [st EXCEPT !.rc = -1]
  IN  IF idx = 0 THEN none
      ELSE IF st.components[idx].state # COMP_ACTIVE THEN [st EXCEPT !.rc = -3]
      ELSE
        LET comp == st.components[idx]
            old_pid == comp.pid
            p1 == fork(st.next_pid)
            \* tier 1
            try_ckpt == comp.handoff = HANDOFF_CHECKPOINT /\ criu # "unsupported"
            ckpt == try_ckpt /\ criu = "ok" /\ p1 >= 0
            \* tier 2
            try_fd == comp.handoff = HANDOFF_FD_PASSING
                        \/ (comp.handoff = HANDOFF_CHECKPOINT /\ ~ try_ckpt)
            fd_forked == try_fd /\ fd # "no_socketpair" /\ p1 >= 0
            fd_ok == fd_forked /\ fd = "ok"
            \* the tiers entered before tier 3
            t1 == IF try_ckpt THEN << <<"checkpoint", ckpt>> >> ELSE << >>
            t2 == IF try_fd THEN << <<"fd-passing", fd_ok>> >> ELSE << >>
            \* the process bookkeeping once tiers 1 and 2 are over
            np == IF ckpt \/ fd_forked THEN st.next_pid + 1 ELSE st.next_pid
            al == IF ckpt \/ fd_forked THEN st.alive \cup {p1} ELSE st.alive
            posted(ks) ==
              IF comp.readiness_method = READINESS_NONE
              THEN RegisterAll(ks, comp.provides, idx) ELSE ks
        IN  IF ckpt
            THEN [st EXCEPT !.components = upgrade_with_checkpoint(@, idx, t, p1),
                            !.capabilities = posted(@),
                            !.next_pid = np, !.alive = al, !.rc = 0,
                            !.tiers = t1]
            ELSE IF fd_ok
            THEN [st EXCEPT !.components = upgrade_with_fd_passing(@, idx, t, p1),
                            !.capabilities = posted(@),
                            !.next_pid = np, !.alive = al, !.rc = 0,
                            !.tiers = t1 \o t2]
            ELSE IF old_pid > 0 /\ old_pid \notin (al \cup st.zombies)
            \* tier 3, kill(old_pid, SIGTERM) fails: capabilities already withdrawn.
            \* kill(0, sig) signals the caller's own process group and succeeds.
            THEN [st EXCEPT !.capabilities = WithdrawAll(@, comp.provides),
                            !.next_pid = np, !.alive = al, !.rc = -4,
                            !.tiers = t1 \o t2 \o << <<"restart", FALSE>> >>]
            ELSE
              LET r == upgrade_with_restart(st.components, st.capabilities, idx, t,
                                            fork(np))
              IN  [ components |-> r.components,
                    capabilities |-> IF r.rc = 0 THEN posted(r.capabilities)
                                     ELSE r.capabilities,
                    next_pid |-> IF r.forked THEN np + 1 ELSE np,
                    alive |-> (IF r.forked THEN al \cup {np} ELSE al) \ {old_pid},
                    zombies |-> st.zombies \ {old_pid},
                    rc |-> r.rc,
                    started |-> TRUE, reaped |-> TRUE,
                    tiers |-> t1 \o t2 \o << <<"restart", r.rc = 0>> >> ]

\* component_upgrade(name) at time t on st = [components, capabilities,
\* next_pid, alive, zombies].
\*   criu - tier 1: criu_is_supported() fails ("unsupported"), the checkpoint
\*          or the restore fails ("fails"), or both succeed ("ok")
\*   fd   - outcome of the fd-passing tier: the handoff completes, the
\*          socketpair cannot be made, or the old process never reports
\*          completion (the forked new instance is then sent SIGTERM)
\* Yields st with rc (the return code), started (component_start was called),
\* reaped (a child was waited for inside the call) and tiers, the upgrade_with_*
\* functions called in order, each with whether it returned 0.
component_upgrade(st, name, t, criu, fd) ==
  LET idx == component_index(st.components, name)
      none == [st EXCEPT !.rc = -1]
  IN  IF idx = 0 THEN none
      ELSE IF st.components[idx].state # COMP_ACTIVE THEN [st EXCEPT !.rc = -3]
      ELSE
        LET comp == st.components[idx]
            old_pid == comp.pid
            p1 == fork(st.next_pid)
            \* tier 1
            try_ckpt == comp.handoff = HANDOFF_CHECKPOINT /\ criu # "unsupported"
            ckpt == try_ckpt /\ criu = "ok" /\ p1 >= 0
            \* tier 2
            try_fd == comp.handoff \in {HANDOFF_CHECKPOINT, HANDOFF_FD_PASSING} /\ ~ckpt
            fd_forked == try_fd /\ fd # "no_socketpair" /\ p1 >= 0
            fd_ok == fd_forked /\ fd = "ok"
            \* the tiers entered before tier 3
            t1 == IF try_ckpt THEN << <<"checkpoint", ckpt>> >> ELSE << >>
            t2 == IF try_fd THEN << <<"fd-passing", fd_ok>> >> ELSE << >>
            \* the process bookkeeping once tiers 1 and 2 are over
            np == IF ckpt \/ fd_forked THEN st.next_pid + 1 ELSE st.next_pid
            al == IF ckpt \/ fd_forked THEN st.alive \cup {p1} ELSE st.alive
            posted(ks) ==
              IF comp.readiness_method = READINESS_NONE
              THEN RegisterAll(ks, comp.provides, idx) ELSE ks
        IN  IF ckpt
            THEN [st EXCEPT !.components = upgrade_with_checkpoint(@, idx, t, p1),
                            !.capabilities = posted(@),
                            !.next_pid = np, !.alive = al, !.rc = 0,
                            !.tiers = t1]
            ELSE IF fd_ok
            THEN [st EXCEPT !.components = upgrade_with_fd_passing(@, idx, t, p1),
                            !.capabilities = posted(@),
                            !.next_pid = np, !.alive = al, !.rc = 0,
                            !.tiers = t1 \o t2]
            ELSE IF old_pid > 0 /\ old_pid \notin (al \cup st.zombies)
            \* tier 3, kill(old_pid, SIGTERM) fails: capabilities already withdrawn.
            \* kill(0, sig) signals the caller's own process group and succeeds.
            THEN [st EXCEPT !.capabilities = WithdrawAll(@, comp.provides),
                            !.next_pid = np, !.alive = al, !.rc = -4,
                            !.tiers = t1 \o t2 \o << <<"restart", FALSE>> >>]
            ELSE
              LET r == upgrade_with_restart(st.components, st.capabilities, idx, t,
                                            fork(np))
              IN  [ components |-> r.components,
                    capabilities |-> IF r.rc = 0 THEN posted(r.capabilities)
                                     ELSE r.capabilities,
                    next_pid |-> IF r.forked THEN np + 1 ELSE np,
                    alive |-> (IF r.forked THEN al \cup {np} ELSE al) \ {old_pid},
                    zombies |-> st.zombies \ {old_pid},
                    rc |-> r.rc,
                    started |-> TRUE, reaped |-> TRUE,
                    tiers |-> t1 \o t2 \o << <<"restart", r.rc = 0>> >> ]

\* component_restore(name, NULL) at time t on st; found says that criu is
\* supported and a checkpoint exists, restored that criu restore succeeds
component_restore(st, name, t, found, restored) ==
  LET idx == component_index(st.components, name)
  IN  IF idx = 0 THEN [st EXCEPT !.rc = -1]
      ELSE IF ~found THEN [st EXCEPT !.rc = -2]
      ELSE
        LET comp == st.components[idx]
            running == comp.state = COMP_ACTIVE /\ comp.pid > 0
            killed == running /\ comp.pid \in st.alive
            caps1 == IF running THEN WithdrawAll(st.capabilities, comp.provides)
                     ELSE st.capabilities
            al == IF killed THEN st.alive \ {comp.pid} ELSE st.alive
            zs == IF killed THEN st.zombies \cup {comp.pid} ELSE st.zombies
            new_pid == IF restored THEN fork(st.next_pid) ELSE -1
        IN  IF new_pid < 0
            THEN [st EXCEPT !.capabilities = caps1, !.alive = al, !.zombies = zs,
                            !.reaped = killed, !.rc = -4]
            ELSE [st EXCEPT
                    !.components =
                      [@ EXCEPT ![idx].pid = new_pid,
                                ![idx].state =
                                  IF comp.readiness_method = READINESS_NONE
                                  THEN COMP_ACTIVE ELSE COMP_READY_WAIT,
                                ![idx].ready_wait_start = t],
                    !.capabilities =
                      IF comp.readiness_method = READINESS_NONE
                      THEN RegisterAll(caps1, comp.provides, idx) ELSE caps1,
                    !.next_pid = @ + 1,
                    !.alive = al \cup {new_pid}, !.zombies = zs,
                    !.reaped = killed, !.rc = 0]

\* orderings of a finite set
Orderings(S) ==
  {s \in [1 .. Cardinality(S) -> S] : \A x, y \in DOMAIN s : x # y => s[x] # s[y]}

\* ------------------------------------------------------------------ state
VARIABLES
  components,      \* component.c: components[0 .. n_components-1]
  capabilities,    \* capability.c: capabilities[0 .. n_capabilities-1]
  dir,             \* the declaration files of GRAPH_DIR in readdir order
  now,             \* time(NULL)
  next_pid,        \* the pid the next successful fork() returns
  alive,           \* pids of child processes that are running
  zombies,         \* pids of exited children not yet waited for
  sigchld_pipe,    \* TRUE while the self-pipe holds a byte
  pc,              \* position of main(): "resolve" (in graph_resolve_full),
                   \* "wait" (in epoll_wait), "events" (in the for loop)
  events,          \* the descriptors of events[] not yet handled (the
                   \* kernel fixes no order among them)
  iterations,      \* graph_resolve_full: iterations
  exceeded,        \* the last graph_resolve_full took its error branch
  start_callers,   \* history: the functions that have called component_start
  stale,           \* history: a handler changed the table or the registry
                   \* and no graph_resolve_full has completed since
  proc             \* the supervisor process: getpid(), the program image it
                   \* runs, whether it runs, sleeps forever or has exited;
                   \* history: the fatal path taken and the execl() that failed
  ,
  graph_out,       \* graph.c: the function of the last graph analysis call,
                   \* its return code and what it wrote to its out-parameter
  sock,            \* handoff.c: the handoff socketpair seen from the
                   \* supervisor's end: the bytes written by the peer and not
                   \* yet read, and whether the peer has closed its end
  handoff_out,     \* handoff.c: the last call on the socketpair, its return
                   \* code and the bytes it read
  kexec,           \* kexec.c: kexec_initialized, the kernel that runs, the
                   \* kernel image loaded, the last kexec call and its result
  checkpoints,     \* the checkpoint directories on disk
  manifest_file    \* manifest.json under checkpoint_base_dir

\* the variables of the component table, the registry and the event loop
core_vars == << components, capabilities, dir, now, next_pid, alive, zombies,
                sigchld_pipe, pc, events, iterations, exceeded,
                start_callers, stale >>

\* the variables of the other subsystems
\* the variables of graph.c, handoff.c and kexec.c
lib_vars == << graph_out, sock, handoff_out, kexec, checkpoints, manifest_file >>

ext_vars == << proc, lib_vars >>

vars == << core_vars, ext_vars >>

\* the supervisor running as process `pid`
Supervisor(pid) ==
  [ pid |-> pid, image |-> "graph-resolver", status |-> "running",
    code |-> 0, fatal |-> "", failed_execs |-> {} ]

\* the other subsystems while main() is in its event loop as PID 1
\* no graph analysis has been called
NoGraphCall == [fn |-> "", rc |-> 0, out |-> << >>]

\* no handoff socketpair exists
NoSock == [data |-> << >>, closed |-> FALSE]

\* no call has been made on a handoff socketpair
NoHandoffCall == [fn |-> "", rc |-> 0, read |-> << >>]

\* kexec.c before kexec_init(): the supervisor runs on the kernel it was
\* booted with and no kernel image is loaded
KexecIdle ==
  [ initialized |-> FALSE, kernel |-> "current", loaded |-> FALSE,
    fn |-> "", rc |-> 0, failed |-> "" ]

\* manifest.json does not exist
NoManifest == [exists |-> FALSE, entries |-> << >>]

\* graph.c, handoff.c and kexec.c before any call, with an empty
\* checkpoint store
LibIdle ==
  /\ graph_out = NoGraphCall
  /\ sock = NoSock
  /\ handoff_out = NoHandoffCall
  /\ kexec = KexecIdle
  /\ checkpoints = {}
  /\ manifest_file = NoManifest

ExtIdle ==
  /\ proc = Supervisor(1)
  /\ LibIdle

n_components == Len(components)

\* induced graph: an edge from x to y when x requires a capability y provides
DependsOn(d, x, y) == Range(d[x].requires) \cap Range(d[y].provides) # {}

RECURSIVE ReachableFrom(_, _, _)
ReachableFrom(d, frontier, seen) ==
  LET next == {y \in DOMAIN d : \E x \in frontier : DependsOn(d, x, y)} \ seen
  IN  IF next = {} THEN seen ELSE ReachableFrom(d, next, seen \cup next)

\* validate_component_graph(0) let main() continue: no component reaches itself
Acyclic(d) == \A x \in DOMAIN d : x \notin ReachableFrom(d, {x}, {})

\* ------------------------------------- graph.c: cycle detection and sort
DFS_WHITE == "WHITE"
DFS_GRAY == "GRAY"
DFS_BLACK == "BLACK"

\* build_dependency_graph() that leaves out the edge of a component to itself
build_dependency_graph_no_self(comps) ==
  [i \in DOMAIN comps |->
     [j \in DOMAIN comps |->
        /\ i # j
        /\ \E r \in DOMAIN comps[i].requires, q \in DOMAIN comps[j].provides :
             comps[j].provides[q] = comps[i].requires[r]]]

\* build_dependency_graph(): adjacency_matrix[i][j] is set when some
\* requires[] entry of component i equals some provides[] entry of component j
build_dependency_graph(comps) ==
  [i \in DOMAIN comps |->
     [j \in DOMAIN comps |->
        \E r \in DOMAIN comps[i].requires, q \in DOMAIN comps[j].provides :
          comps[j].provides[q] = comps[i].requires[r]]]

\* the first position of x in path
path_index(path, x) ==
  CHOOSE k \in DOMAIN path : path[k] = x /\ \A m \in 1 .. k - 1 : path[m] # x

RECURSIVE dfs_cycle_detect(_, _, _, _)
RECURSIVE dfs_adjacent(_, _, _, _, _)

\* dfs_cycle_detect(): the for loop over j from the given j on, component_idx
\* being GRAY and the last entry of path
dfs_adjacent(adj, component_idx, j, colors, path) ==
  IF j > Len(adj)
  THEN [found |-> FALSE, colors |-> [colors EXCEPT ![component_idx] = DFS_BLACK],
        cycle |-> << >>]
  ELSE IF adj[component_idx][j] /\ colors[j] = DFS_GRAY
  THEN [found |-> TRUE, colors |-> colors,
        cycle |-> SubSeq(path, path_index(path, j), Len(path)) \o <<j>>]
  ELSE IF adj[component_idx][j] /\ colors[j] = DFS_WHITE
  THEN LET r == dfs_cycle_detect(adj, j, colors, path)
       IN  IF r.found THEN r
           ELSE dfs_adjacent(adj, component_idx, j + 1, r.colors, path)
  ELSE dfs_adjacent(adj, component_idx, j + 1, colors, path)

\* dfs_cycle_detect(component_idx, colors, ..., path, path_len)
dfs_cycle_detect(adj, component_idx, colors, path) ==
  dfs_adjacent(adj, component_idx, 1,
               [colors EXCEPT ![component_idx] = DFS_GRAY],
               Append(path, component_idx))

\* graph_detect_cycles(): the loop "run DFS from each unvisited component"
\* from component i on
RECURSIVE detect_from(_, _, _)
detect_from(adj, i, colors) ==
  IF i > Len(adj) THEN [rc |-> 0, cycle |-> << >>]
  ELSE IF colors[i] = DFS_WHITE
  THEN LET r == dfs_cycle_detect(adj, i, colors, << >>)
       IN  IF r.found THEN [rc |-> 1, cycle |-> r.cycle]
           ELSE detect_from(adj, i + 1, r.colors)
  ELSE detect_from(adj, i + 1, colors)

\* graph_detect_cycles(&cycle_info) on the table comps: the return code and
\* cycle_info.cycle_components
graph_detect_cycles(comps) ==
  IF Len(comps) = 0 THEN [rc |-> 0, cycle |-> << >>]
  ELSE detect_from(build_dependency_graph(comps), 1,
                   [i \in DOMAIN comps |-> DFS_WHITE])

\* graph_topological_sort(): "update in-degrees of adjacent components", the
\* for loop over j from the given j on
RECURSIVE kahn_adjacent(_, _, _, _, _)
kahn_adjacent(adj, current, j, in_degree, queue) ==
  IF j > Len(adj) THEN [in_degree |-> in_degree, queue |-> queue]
  ELSE IF adj[current][j]
  THEN kahn_adjacent(adj, current, j + 1,
                     [in_degree EXCEPT ![j] = @ - 1],
                     IF in_degree[j] - 1 = 0 THEN Append(queue, j) ELSE queue)
  ELSE kahn_adjacent(adj, current, j + 1, in_degree, queue)

\* graph_topological_sort(): "process queue", queue_front being at front
RECURSIVE kahn_process(_, _, _, _, _)
kahn_process(adj, in_degree, queue, front, sorted) ==
  IF front > Len(queue) THEN sorted
  ELSE LET current == queue[front]
           r == kahn_adjacent(adj, current, 1, in_degree, queue)
       IN  kahn_process(adj, r.in_degree, r.queue, front + 1,
                        Append(sorted, current))

\* graph_topological_sort(): "add all components with in-degree 0 to queue",
\* the for loop from component i on
RECURSIVE kahn_roots(_, _)
kahn_roots(in_degree, i) ==
  IF i > Len(in_degree) THEN << >>
  ELSE (IF in_degree[i] = 0 THEN <<i>> ELSE << >>) \o kahn_roots(in_degree, i + 1)

\* graph_topological_sort(sorted_components, max_components) on the table
\* comps: the return code and the entries written to sorted_components
graph_topological_sort(comps, max_components) ==
  IF max_components < Len(comps) THEN [rc |-> -1, sorted |-> << >>]
  ELSE IF graph_detect_cycles(comps).rc = 1 THEN [rc |-> -1, sorted |-> << >>]
  ELSE
    LET adj == build_dependency_graph(comps)
        in_degree == [j \in DOMAIN comps |->
                        Cardinality({i \in DOMAIN comps : adj[i][j]})]
        sorted == kahn_process(adj, in_degree, kahn_roots(in_degree, 1), 1, << >>)
    IN  [rc |-> IF Len(sorted) # Len(comps) THEN -1 ELSE 0, sorted |-> sorted]

\* the directory listings main() may find at boot
InitDirs == { [k \in 1 .. 2 |-> d[p[k]]] : d \in DeclSets, p \in Orders2 }

\* main() up to "performing initial graph resolution", GRAPH_DIR being one
\* of the listings D
Booted(D) ==
  /\ dir \in D
  /\ Acyclic(dir)
  /\ components = << kernel_component >> \o load_components(dir)
  /\ capabilities = early_registry
  /\ now = StartTime
  /\ next_pid = 1
  /\ alive = {}
  /\ zombies = {}
  /\ sigchld_pipe = FALSE
  /\ pc = "resolve"
  /\ events = {}
  /\ iterations = 0
  /\ exceeded = FALSE
  /\ start_callers = {}
  /\ stale = FALSE
  /\ ExtIdle

Init == Booted(InitDirs)

\* where main() continues once the handler of the current event returns
AfterEvent(ev) == IF ev = {} THEN "wait" ELSE "events"

\* ------------------------------------------------------ graph.c: resolver
\* graph_resolve() with changes++ moved out of the ACTIVE case's if: every
\* ACTIVE slot counts as a change
resolve_visit_miscount(st, i, t) ==
  LET comp == st.components[i]
      met == requirements_met(st.capabilities, comp)
  IN  CASE comp.state = COMP_INACTIVE /\ met ->
             LET r == component_start(st.components, st.capabilities, i, t,
                                      fork(st.next_pid))
             IN  [ components |-> r.components,
                   capabilities |-> r.capabilities,
                   next_pid |-> IF r.forked THEN st.next_pid + 1 ELSE st.next_pid,
                   alive |-> IF r.forked THEN st.alive \cup {st.next_pid} ELSE st.alive,
                   changes |-> IF r.rc = 0 THEN st.changes + 1 ELSE st.changes,
                   called |-> TRUE ]
        [] comp.state = COMP_READY_WAIT /\ ~met ->
             [st EXCEPT !.components[i].state = COMP_FAILED,
                        !.changes = @ + 1]
        [] comp.state = COMP_ACTIVE /\ ~met ->
             [st EXCEPT !.components[i].state = COMP_FAILED,
                        !.capabilities = WithdrawAll(@, comp.provides),
                        !.changes = @ + 1]
        [] comp.state = COMP_ACTIVE /\ met ->
             [st EXCEPT !.changes = @ + 1]
        [] comp.state = COMP_FAILED /\ met /\ t - comp.last_restart >= 5 ->
             [st EXCEPT !.components[i].state = COMP_INACTIVE,
                        !.changes = @ + 1]
        [] OTHER -> st

\* graph_resolve() whose ACTIVE case forgets the capability_withdraw loop
resolve_visit_keeps_caps(st, i, t) ==
  LET comp == st.components[i]
      met == requirements_met(st.capabilities, comp)
  IN  CASE comp.state = COMP_INACTIVE /\ met ->
             LET r == component_start(st.components, st.capabilities, i, t,
                                      fork(st.next_pid))
             IN  [ components |-> r.components,
                   capabilities |-> r.capabilities,
                   next_pid |-> IF r.forked THEN st.next_pid + 1 ELSE st.next_pid,
                   alive |-> IF r.forked THEN st.alive \cup {st.next_pid} ELSE st.alive,
                   changes |-> IF r.rc = 0 THEN st.changes + 1 ELSE st.changes,
                   called |-> TRUE ]
        [] comp.state = COMP_READY_WAIT /\ ~met ->
             [st EXCEPT !.components[i].state = COMP_FAILED,
                        !.changes = @ + 1]
        [] comp.state = COMP_ACTIVE /\ ~met ->
             [st EXCEPT !.components[i].state = COMP_FAILED,
                        !.changes = @ + 1]
        [] comp.state = COMP_FAILED /\ met /\ t - comp.last_restart >= 5 ->
             [st EXCEPT !.components[i].state = COMP_INACTIVE,
                        !.changes = @ + 1]
        [] OTHER -> st

\* graph_resolve(): the body of the for loop for slot i at time t.  st holds
\* the table, the registry, the process bookkeeping and the running count
\* of changes; called records whether component_start was invoked.
resolve_visit(st, i, t) ==
  LET comp == st.components[i]
      met == requirements_met(st.capabilities, comp)
  IN  CASE comp.state = COMP_INACTIVE /\ met ->
             LET r == component_start(st.components, st.capabilities, i, t,
                                      fork(st.next_pid))
             IN  [ components |-> r.components,
                   capabilities |-> r.capabilities,
                   next_pid |-> IF r.forked THEN st.next_pid + 1 ELSE st.next_pid,
                   alive |-> IF r.forked THEN st.alive \cup {st.next_pid} ELSE st.alive,
                   changes |-> IF r.rc = 0 THEN st.changes + 1 ELSE st.changes,
                   called |-> TRUE ]
        [] comp.state = COMP_READY_WAIT /\ ~met ->
             [st EXCEPT !.components[i].state = COMP_FAILED,
                        !.changes = @ + 1]
        [] comp.state = COMP_ACTIVE /\ ~met ->
             [st EXCEPT !.components[i].state = COMP_FAILED,
                        !.capabilities = WithdrawAll(@, comp.provides),
                        !.changes = @ + 1]
        [] comp.state = COMP_FAILED /\ met /\ t - comp.last_restart >= 5 ->
             [st EXCEPT !.components[i].state = COMP_INACTIVE,
                        !.changes = @ + 1]
        [] OTHER -> st

\* graph_resolve(): the for loop over slots i..j in order
RECURSIVE resolve_range(_, _, _, _)
resolve_range(st, i, j, t) ==
  IF i > j THEN st
  ELSE resolve_range(resolve_visit(st, i, t), i + 1, j, t)

\* graph_resolve() entered in the current state: changes = 0, i = 0
PassStart ==
  [ components |-> components, capabilities |-> capabilities,
    next_pid |-> next_pid, alive |-> alive, changes |-> 0, called |-> FALSE ]

graph_resolve == resolve_range(PassStart, 1, n_components, now)

\* graph_resolve_full() written as a single graph_resolve() call, the
\* do-while loop left out
graph_resolve_once ==
  /\ pc = "resolve"
  /\ \E r \in {graph_resolve} :
       /\ components' = r.components
       /\ capabilities' = r.capabilities
       /\ next_pid' = r.next_pid
       /\ alive' = r.alive
       /\ start_callers' = IF r.called THEN start_callers \cup {"graph_resolve"}
                           ELSE start_callers
  /\ exceeded' = FALSE
  /\ pc' = AfterEvent(events)
  /\ iterations' = 0
  /\ stale' = FALSE
  /\ UNCHANGED << dir, now, zombies, sigchld_pipe, events >>
  /\ UNCHANGED ext_vars

\* graph_resolve_full(): one turn of the do-while loop: a graph_resolve()
\* pass, iterations++, then the max-iterations test and the loop condition
ResolvePass ==
  /\ pc = "resolve"
  /\ \E r \in {graph_resolve} :
       /\ components' = r.components
       /\ capabilities' = r.capabilities
       /\ next_pid' = r.next_pid
       /\ alive' = r.alive
       /\ start_callers' = IF r.called THEN start_callers \cup {"graph_resolve"}
                           ELSE start_callers
       /\ IF iterations + 1 > n_components * 2
          THEN /\ exceeded' = TRUE
               /\ pc' = AfterEvent(events)
               /\ iterations' = 0
               /\ stale' = FALSE
          ELSE IF r.changes > 0
          THEN /\ iterations' = iterations + 1
               /\ UNCHANGED << pc, exceeded, stale >>
          ELSE /\ exceeded' = FALSE
               /\ pc' = AfterEvent(events)
               /\ iterations' = 0
               /\ stale' = FALSE
  /\ UNCHANGED << dir, now, zombies, sigchld_pipe, events >>
  /\ UNCHANGED ext_vars

\* ------------------------------------------- graph-resolver.c: event loop
\* a component state or the active flag of a capability differs
StateOrCapChanged(c1, k1, c2, k2) ==
  \/ Len(c1) # Len(c2)
  \/ \E k \in DOMAIN c1 : c1[k].state # c2[k].state
  \/ {k1[x].name : x \in {y \in DOMAIN k1 : k1[y].active}}
       # {k2[x].name : x \in {y \in DOMAIN k2 : k2[y].active}}

WakeSources == {"sigchld", "control", "inotify"}

\* the descriptors one epoll_wait may report: at most one client request or
\* directory change arrives within a wake, next to the self-pipe
Wakes == {w \in SUBSET WakeSources : ~ ({"control", "inotify"} \subseteq w)}

\* execute_health_check(): 0 success, 1 failure, 2 timeout
HealthResults == {0, 1, 2}

\* One wake of main(): epoll_wait(epoll_fd, events, MAX_EPOLL_EVENTS, 1000)
\* returns after d seconds with the readable descriptors woken (the self-pipe
\* is readable exactly when it holds a byte), then check_all_readiness(),
\* check_all_health() and check_all_oom_events() run in this order.
\*   ready   - slots whose readiness file exists on this poll
\*   results - outcome of each health probe that is run; every probe is a
\*             forked child whose exit raises SIGCHLD
\*   oom     - slots whose cgroup reports oom_kill > 0 (at most one per
\*             wake); only a slot with a spawned process has a cgroup that
\*             can report one
TickWith(d, woken) ==
  /\ pc = "wait"
  /\ now + d <= StartTime + MaxElapsed
  /\ now' = now + d
  /\ ("sigchld" \in woken) = sigchld_pipe
  /\ events' = woken
  /\ \E ready \in SUBSET {k \in DOMAIN components :
                            components[k].state = COMP_READY_WAIT} :
     \E r1 \in {check_all_readiness(components, capabilities, 1, now', ready)} :
     \E due \in {{k \in DOMAIN r1.components : health_due(r1.components[k], now')}} :
     \E results \in [due -> HealthResults] :
     \E r2 \in {check_all_health(r1.components, r1.capabilities, 1, now', results)} :
     \E oom \in {{}} \cup {{k} : k \in {j \in DOMAIN r2.components :
                          /\ r2.components[j].pid > 0
                          /\ r2.components[j].state \in
                               {COMP_READY_WAIT, COMP_ACTIVE, COMP_DEGRADED}}} :
     \E r3 \in {check_all_oom_events(r2.components, r2.capabilities, 1, oom)} :
       /\ components' = r3.components
       /\ capabilities' = r3.capabilities
       /\ stale' = (stale \/ StateOrCapChanged(components, capabilities,
                                               r3.components, r3.capabilities))
       /\ sigchld_pipe' = (sigchld_pipe \/ due # {})
  /\ pc' = AfterEvent(events')
  /\ UNCHANGED << dir, next_pid, alive, zombies, iterations,
                  exceeded, start_callers >>
  /\ UNCHANGED ext_vars

Tick == \E d \in TimeSteps, woken \in Wakes : TickWith(d, woken)

\* the wait statuses of exit(0), exit(1) and death by SIGTERM
ExitStatuses == {0, 256, 15}

\* main(): fd == sigchld_pipe[0]: drain the pipe, reap_children(), then
\* graph_resolve_full(), whose passes follow as ResolvePass.  The pipe is
\* made by pipe2(sigchld_pipe, O_CLOEXEC), without O_NONBLOCK, so the drain
\* loop ends only when a read() fails; the action lets it end, which keeps
\* every state the code can reach and adds those that follow a finished
\* drain.  waitpid(-1, WNOHANG) returns the zombies in any order, each with
\* its wait status.
HandleSigchld ==
  /\ pc = "events"
  /\ "sigchld" \in events
  /\ \E order \in Orderings(zombies), status \in [zombies -> ExitStatuses] :
       LET zs == [k \in DOMAIN order |-> << order[k], status[order[k]] >>]
           r == reap_children(components, capabilities, zs)
       IN  /\ components' = r.components
           /\ capabilities' = r.capabilities
           /\ stale' = (stale \/ StateOrCapChanged(components, capabilities,
                                                   r.components, r.capabilities))
  /\ zombies' = {}
  /\ sigchld_pipe' = FALSE
  /\ events' = events \ {"sigchld"}
  /\ pc' = "resolve"
  /\ iterations' = 0
  /\ UNCHANGED << dir, now, next_pid, alive, exceeded, start_callers >>
  /\ UNCHANGED ext_vars

\* handle_inotify(): rebuild the table and the registry from GRAPH_DIR,
\* restore pid and state by name, then graph_resolve_full()
HandleInotify ==
  /\ pc = "events"
  /\ "inotify" \in events
  /\ LET r == restore_states(<< kernel_component >> \o load_components(dir),
                             early_registry, 1, components)
     IN  /\ components' = r.components
         /\ capabilities' = r.capabilities
         /\ stale' = (stale \/ StateOrCapChanged(components, capabilities,
                                                 r.components, r.capabilities))
  /\ events' = events \ {"inotify"}
  /\ pc' = "resolve"
  /\ iterations' = 0
  /\ UNCHANGED << dir, now, next_pid, alive, zombies, sigchld_pipe, exceeded,
                  start_callers >>
  /\ UNCHANGED ext_vars

\* the requests a client may send on the control socket
ControlNames == {"A"}

ControlCommands ==
  { <<"check-readiness", "">> }
    \cup { <<c, n>> : c \in {"upgrade", "restore"}, n \in ControlNames }

\* handle_control_command() entered in the current state
ControlStart ==
  [ components |-> components, capabilities |-> capabilities,
    next_pid |-> next_pid, alive |-> alive, zombies |-> zombies,
    rc |-> 0, started |-> FALSE, reaped |-> FALSE, tiers |-> << >> ]

\* main(): fd == control_fd: accept, read one request, handle_control_command()
HandleControl ==
  /\ pc = "events"
  /\ "control" \in events
  /\ \E cmd \in ControlCommands :
     \E r \in
        CASE cmd[1] = "check-readiness" ->
               IF \E k \in DOMAIN components : components[k].state = COMP_READY_WAIT
               THEN { [ControlStart EXCEPT !.components = c.components,
                                           !.capabilities = c.capabilities] :
                      c \in { check_all_readiness(components, capabilities, 1, now, ready) :
                              ready \in SUBSET {k \in DOMAIN components :
                                          components[k].state = COMP_READY_WAIT} } }
               ELSE {ControlStart}
          [] cmd[1] = "upgrade" ->
               { component_upgrade(ControlStart, cmd[2], now, criu, fd) :
                 criu \in CriuOutcomes, fd \in FdOutcomes }
          [] cmd[1] = "restore" ->
               { component_restore(ControlStart, cmd[2], now, found, restored) :
                 found \in BOOLEAN, restored \in BOOLEAN } :
       /\ components' = r.components
       /\ capabilities' = r.capabilities
       /\ next_pid' = r.next_pid
       /\ alive' = r.alive
       /\ zombies' = r.zombies
       /\ sigchld_pipe' = (sigchld_pipe \/ r.reaped)
       /\ start_callers' = IF r.started
                           THEN start_callers \cup {"upgrade_with_restart"}
                           ELSE start_callers
       /\ stale' = (stale \/ StateOrCapChanged(components, capabilities,
                                               r.components, r.capabilities))
  /\ events' = events \ {"control"}
  /\ pc' = AfterEvent(events')
  /\ UNCHANGED << dir, now, iterations, exceeded >>
  /\ UNCHANGED ext_vars

\* ------------------------------------------------------------ environment
\* a running child terminates while main() is in epoll_wait; the SIGCHLD
\* handler writes to the self-pipe.  Its wait status is read by waitpid.
ChildExit ==
  /\ pc = "wait"
  /\ \E p \in alive :
       /\ alive' = alive \ {p}
       /\ zombies' = zombies \cup {p}
  /\ sigchld_pipe' = TRUE
  /\ UNCHANGED << components, capabilities, dir, now, next_pid, pc, events,
                  iterations, exceeded, start_callers, stale >>
  /\ UNCHANGED ext_vars

Next ==
  \/ ResolvePass
  \/ Tick
  \/ HandleSigchld
  \/ HandleInotify
  \/ HandleControl
  \/ ChildExit

Spec == Init /\ [][Next]_vars

\* ------------------------------------------------------- boot on any graph
\* the number of declared components of the boot graphs
BootSize == 3

BootNames == << "A", "B", "C", "D" >>
BootCaps == << "a", "b", "c", "d" >>

\* a set as a sequence, in some order
SeqOf(S) == CHOOSE q \in Orderings(S) : TRUE

\* The directory of BootSize plain services (no readiness method) in which
\* the component at place k is number p[k], providing its own capability and
\* requiring those of the components in g[p[k]]
BootDir(g, p) ==
  [k \in 1 .. BootSize |->
     Svc(BootNames[p[k]], SeqOf({BootCaps[y] : y \in g[p[k]]}), << BootCaps[p[k]] >>)]

\* the acyclic requirement graphs over the BootSize components
BootGraphs ==
  { g \in [1 .. BootSize -> SUBSET (1 .. BootSize)] :
      /\ \A x \in 1 .. BootSize : x \notin g[x]
      /\ Acyclic(BootDir(g, [k \in 1 .. BootSize |-> k])) }

\* every such graph, listed in every order
BootDirs == { BootDir(g, p) : g \in BootGraphs, p \in Orderings(1 .. BootSize) }

InitBoot == Booted(BootDirs)

\* main() from boot to the return of the first graph_resolve_full()
NextBoot == ResolvePass

SpecBoot == InitBoot /\ [][NextBoot]_vars

\* ------------------------------------------------- health checks on a service
\* the health interval declared by the health-checked services, in seconds
HealthInterval == 2

\* seconds that may pass in one epoll_wait between two probes
HealthSteps == {0, HealthInterval}

\* The directory of a health-checked service A, with fail threshold F and
\* restart threshold R, and its dependent B
HealthDir(F, R) ==
  << [Decl("A", COMP_TYPE_SERVICE, << >>, <<"a">>, READINESS_NONE, HANDOFF_NONE, TRUE)
        EXCEPT !.health_interval = HealthInterval,
               !.health_fail_threshold = F,
               !.health_restart_threshold = R],
     Svc("B", <<"a">>, <<"b">>) >>

\* one directory for each pair of thresholds 1 <= F < R <= MaxThreshold
HealthDirs ==
  { HealthDir(x[1], x[2]) :
      x \in {y \in (1 .. MaxThreshold) \X (1 .. MaxThreshold) : y[1] < y[2]} }

InitHealth == Booted(HealthDirs)

\* a wake of main() by the epoll_wait timeout or by the self-pipe
HealthTick == \E d \in HealthSteps, woken \in SUBSET {"sigchld"} : TickWith(d, woken)

\* main() while no client connects, no declaration changes and no component
\* process exits: the ticks, and the SIGCHLD of the finished probes
NextHealth ==
  \/ ResolvePass
  \/ HealthTick
  \/ HandleSigchld

SpecHealth == InitHealth /\ [][NextHealth]_vars

\* ------------------------------------------- edits of the declaration directory
\* GRAPH_DIR at boot: service A providing a, and service B requiring a
ReloadBootDir == << Svc("A", << >>, <<"a">>), Svc("B", <<"a">>, <<"b">>) >>

\* What an operator may leave in GRAPH_DIR: the boot declarations; A edited to
\* require b, which closes the cycle A -> B -> A; and that cycle next to a
\* new service C with no requirements
ReloadDirs ==
  { ReloadBootDir,
    << Svc("A", <<"b">>, <<"a">>), Svc("B", <<"a">>, <<"b">>) >>,
    << Svc("A", <<"b">>, <<"a">>), Svc("B", <<"a">>, <<"b">>),
       Svc("C", << >>, <<"c">>) >> }

InitReload == Booted({ReloadBootDir})

\* an operator rewrites GRAPH_DIR while main() is in epoll_wait; the inotify
\* descriptor becomes readable and a later wake reports it
EditDir ==
  /\ pc = "wait"
  /\ dir' \in ReloadDirs \ {dir}
  /\ UNCHANGED << components, capabilities, now, next_pid, alive, zombies,
                  sigchld_pipe, pc, events, iterations, exceeded,
                  start_callers, stale >>
  /\ UNCHANGED ext_vars

NextReload ==
  \/ ResolvePass
  \/ Tick
  \/ HandleSigchld
  \/ HandleInotify
  \/ HandleControl
  \/ ChildExit
  \/ EditDir

SpecReload == InitReload /\ [][NextReload]_vars

\* ------------------------------------------- graph analysis on any graph
\* the number of declared components of the analysed graphs and the largest
\* number of capabilities one of them requires
GraphSize == 4
MaxRequires == 2

GraphNames == << "A", "B", "C", "D", "E", "F" >>
GraphCaps == << "a", "b", "c", "d", "e", "f" >>

\* every directory of GraphSize services, the k-th providing the k-th
\* capability and requiring up to MaxRequires of the capabilities, its own
\* included
GraphDirs ==
  LET caps == {GraphCaps[k] : k \in 1 .. GraphSize}
      reqs == {S \in SUBSET caps : Cardinality(S) <= MaxRequires}
  IN  { [k \in 1 .. GraphSize |-> Svc(GraphNames[k], SeqOf(req[k]), <<GraphCaps[k]>>)] :
        req \in [1 .. GraphSize -> reqs] }

\* the table loaded from one of the directories, before validation
InitGraph ==
  /\ dir \in GraphDirs
  /\ components = << kernel_component >> \o load_components(dir)
  /\ capabilities = early_registry
  /\ now = StartTime
  /\ next_pid = 1
  /\ alive = {}
  /\ zombies = {}
  /\ sigchld_pipe = FALSE
  /\ pc = "validate"
  /\ events = {}
  /\ iterations = 0
  /\ exceeded = FALSE
  /\ start_callers = {}
  /\ stale = FALSE
  /\ ExtIdle

\* graph_detect_cycles(&cycle_info) is called on the loaded table
DetectCycles ==
  /\ pc = "validate"
  /\ \E r \in {graph_detect_cycles(components)} :
       graph_out' = [fn |-> "graph_detect_cycles", rc |-> r.rc, out |-> r.cycle]
  /\ UNCHANGED << core_vars, proc, sock, handoff_out, kexec, checkpoints,
                  manifest_file >>

\* graph_topological_sort(sorted, MAX_COMPONENTS) is called on the loaded table
TopologicalSort ==
  /\ pc = "validate"
  /\ \E r \in {graph_topological_sort(components, n_components)} :
       graph_out' = [fn |-> "graph_topological_sort", rc |-> r.rc, out |-> r.sorted]
  /\ UNCHANGED << core_vars, proc, sock, handoff_out, kexec, checkpoints,
                  manifest_file >>

NextGraph ==
  \/ DetectCycles
  \/ TopologicalSort

SpecGraph == InitGraph /\ [][NextGraph]_vars

\* ------------------------------------- main() from its first statement
\* the fallback shells of emergency_shell() in the order they are tried
EmergencyShells == << "/bin/sh", "/bin/bash", "/sbin/sulogin" >>

\* emergency_shell() that returns when every execl() has failed
emergency_shell_gives_up(p, why, ok) ==
  IF p.pid # 1 THEN [p EXCEPT !.fatal = why]
  ELSE IF Range(EmergencyShells) \cap ok = {}
  THEN [p EXCEPT !.fatal = why, !.failed_execs = Range(EmergencyShells)]
  ELSE LET first == CHOOSE k \in DOMAIN EmergencyShells :
                      /\ EmergencyShells[k] \in ok
                      /\ \A j \in 1 .. k - 1 : EmergencyShells[j] \notin ok
       IN  [p EXCEPT !.fatal = why, !.image = EmergencyShells[first],
                     !.failed_execs = {EmergencyShells[j] : j \in 1 .. first - 1}]

\* emergency_shell() called by process p on the fatal path `why`, ok being
\* the shells whose execl() succeeds: a process other than PID 1 returns; PID 1
\* becomes the first shell that can be executed, or sleeps forever
emergency_shell(p, why, ok) ==
  IF p.pid # 1 THEN [p EXCEPT !.fatal = why]
  ELSE IF Range(EmergencyShells) \cap ok = {}
  THEN [p EXCEPT !.fatal = why, !.status = "sleeping",
                 !.failed_execs = Range(EmergencyShells)]
  ELSE LET first == CHOOSE k \in DOMAIN EmergencyShells :
                      /\ EmergencyShells[k] \in ok
                      /\ \A j \in 1 .. k - 1 : EmergencyShells[j] \notin ok
       IN  [p EXCEPT !.fatal = why, !.image = EmergencyShells[first],
                     !.failed_execs = {EmergencyShells[j] : j \in 1 .. first - 1}]

\* the statement after a call of emergency_shell() is reached
Returned(p) == p.image = "graph-resolver" /\ p.status = "running"

\* "emergency_shell(); return code;" in main()
main_return(p, why, ok, code) ==
  LET q == emergency_shell(p, why, ok)
  IN  IF Returned(q) THEN [q EXCEPT !.status = "exited", !.code = code] ELSE q

\* validate_component_graph(warn_only) on the table comps
validate_component_graph(comps, warn_only) ==
  IF graph_detect_cycles(comps).rc = 1 THEN (IF warn_only THEN 0 ELSE -1) ELSE 0

\* the directories main() may find: those of InitDirs and one with a cycle
MainDirs ==
  InitDirs \cup { << Svc("A", <<"b">>, <<"a">>), Svc("B", <<"a">>, <<"b">>) >> }

\* the process ids the supervisor may run as: init, or a test process
MainPids == {1, 2}

\* main() at its first statement, after capability_init()
InitMain ==
  /\ dir \in MainDirs
  /\ components = << >>
  /\ capabilities = << >>
  /\ now = StartTime
  /\ next_pid = 1
  /\ alive = {}
  /\ zombies = {}
  /\ sigchld_pipe = FALSE
  /\ pc = "init"
  /\ events = {}
  /\ iterations = 0
  /\ exceeded = FALSE
  /\ start_callers = {}
  /\ stale = FALSE
  /\ proc \in {Supervisor(pid) : pid \in MainPids}
  /\ LibIdle

\* main(): cgroup_init() when PID 1, mount_early_fs(), pipe2() and the
\* signal handlers
MainStart ==
  /\ pc = "init"
  /\ \E cgroup_ok, pipe_ok \in BOOLEAN, ok \in SUBSET Range(EmergencyShells) :
       IF proc.pid = 1 /\ ~ cgroup_ok
       THEN /\ proc' = main_return(proc, "cgroup_init", ok, 1)
            /\ pc' = "halt"
       ELSE IF ~ pipe_ok
       THEN /\ proc' = main_return(proc, "pipe2", ok, 1)
            /\ pc' = "halt"
       ELSE /\ pc' = "load"
            /\ UNCHANGED proc
  /\ UNCHANGED << components, capabilities, dir, now, next_pid, alive, zombies,
                  sigchld_pipe, events, iterations, exceeded, start_callers,
                  stale, lib_vars >>

\* main(): register_early_capabilities(), load_components(),
\* validate_component_graph(0), epoll_create1() and the descriptors added
MainLoad ==
  /\ pc = "load"
  /\ components' = << kernel_component >> \o load_components(dir)
  /\ capabilities' = early_registry
  /\ \E epoll_ok \in BOOLEAN, ok \in SUBSET Range(EmergencyShells) :
       IF validate_component_graph(components', FALSE) < 0
       THEN /\ proc' = main_return(proc, "validate_component_graph", ok, 1)
            /\ pc' = "halt"
       ELSE IF ~ epoll_ok
       THEN /\ proc' = main_return(proc, "epoll_create1", ok, 1)
            /\ pc' = "halt"
       ELSE /\ pc' = "resolve"
            /\ UNCHANGED proc
  /\ UNCHANGED << dir, now, next_pid, alive, zombies, sigchld_pipe, events,
                  iterations, exceeded, start_callers, stale, lib_vars >>

\* main(): the shutdown sequence: SIGTERM, then SIGKILL, to every component
\* with a pid
ShutdownKills == {components[k].pid : k \in DOMAIN components} \cap alive

\* main(): epoll_wait() fails with an error other than EINTR:
\* emergency_shell(); break; then the shutdown sequence and its
\* emergency_shell(); return 0
MainEpollFails ==
  /\ pc = "wait"
  /\ \E ok \in SUBSET Range(EmergencyShells) :
     \E q \in {emergency_shell(proc, "epoll_wait", ok)} :
       IF Returned(q)
       THEN /\ proc' = main_return(q, "epoll_wait", ok, 0)
            /\ alive' = alive \ ShutdownKills
            /\ zombies' = zombies \cup ShutdownKills
       ELSE /\ proc' = q
            /\ UNCHANGED << alive, zombies >>
  /\ pc' = "halt"
  /\ UNCHANGED << components, capabilities, dir, now, next_pid, sigchld_pipe,
                  events, iterations, exceeded, start_callers, stale, lib_vars >>

\* main(): SIGTERM or SIGINT has cleared `running`: the loop ends, then the
\* shutdown sequence and emergency_shell(); return 0
MainShutdown ==
  /\ pc = "wait"
  /\ \E ok \in SUBSET Range(EmergencyShells) :
       proc' = main_return(proc, "shutdown", ok, 0)
  /\ alive' = alive \ ShutdownKills
  /\ zombies' = zombies \cup ShutdownKills
  /\ pc' = "halt"
  /\ UNCHANGED << components, capabilities, dir, now, next_pid, sigchld_pipe,
                  events, iterations, exceeded, start_callers, stale, lib_vars >>

NextMain ==
  \/ MainStart
  \/ MainLoad
  \/ ResolvePass
  \/ HealthTick
  \/ HandleSigchld
  \/ ChildExit
  \/ MainEpollFails
  \/ MainShutdown

SpecMain == InitMain /\ [][NextMain]_vars

\* ------------------------------------------- handoff.c: completion token
\* bytes are one-character strings; NUL is the byte 0
NUL == "NUL"

\* handoff.h: HANDOFF_COMPLETE_MSG, the string literal "HANDOFF_COMPLETE\n"
HANDOFF_COMPLETE_MSG ==
  << "H", "A", "N", "D", "O", "F", "F", "_", "C", "O", "M", "P", "L", "E", "T", "E",
     "\n" >>

\* handoff.h: HANDOFF_COMPLETE_LEN
HANDOFF_COMPLETE_LEN == 16

\* the i-th character of the C string held in s, which ends at its first NUL
\* or at the terminator written behind its last byte
c_char(s, i) == IF i <= Len(s) THEN s[i] ELSE NUL

\* strncmp(a, b, n) == 0, the comparison being at character i
RECURSIVE strncmp_eq(_, _, _, _)
strncmp_eq(a, b, i, n) ==
  IF i > n THEN TRUE
  ELSE IF c_char(a, i) # c_char(b, i) THEN FALSE
  ELSE IF c_char(a, i) = NUL THEN TRUE
  ELSE strncmp_eq(a, b, i + 1, n)

\* send_handoff_complete(sock) by the peer: write(sock, HANDOFF_COMPLETE_MSG,
\* HANDOFF_COMPLETE_LEN); the write fails once the supervisor's end is gone
send_handoff_complete(s) ==
  IF s.closed THEN [sock |-> s, rc |-> -1]
  ELSE [sock |-> [s EXCEPT !.data = @ \o SubSeq(HANDOFF_COMPLETE_MSG, 1,
                                                HANDOFF_COMPLETE_LEN)],
        rc |-> 0]

\* wait_handoff_complete(sock, timeout_ms): poll() times out while nothing
\* can be read and the peer has not closed; otherwise one read() of up to
\* HANDOFF_COMPLETE_LEN bytes (0 bytes at end of stream), a terminator
\* behind them, and strncmp() with the message
wait_handoff_complete(s) ==
  IF s.data = << >> /\ ~ s.closed
  THEN [sock |-> s, rc |-> -1, read |-> << >>, timeout |-> TRUE]
  ELSE LET bytes_read == IF Len(s.data) < HANDOFF_COMPLETE_LEN THEN Len(s.data)
                         ELSE HANDOFF_COMPLETE_LEN
           buffer == SubSeq(s.data, 1, bytes_read)
       IN  [ sock |-> [s EXCEPT !.data = SubSeq(@, bytes_read + 1, Len(@))],
             rc |-> IF strncmp_eq(buffer, HANDOFF_COMPLETE_MSG, 1,
                                  HANDOFF_COMPLETE_LEN)
                    THEN 0 ELSE -1,
             read |-> buffer, timeout |-> FALSE ]

\* the most bytes the socketpair holds when the peer writes
MaxChannel == 34

\* what the peer may have written before the supervisor waits: a prefix of
\* the message followed by nothing, a stray byte, a newline or a NUL; or the
\* message with one byte altered
HandoffInputs ==
  { SubSeq(HANDOFF_COMPLETE_MSG, 1, k) \o tail :
      k \in 0 .. Len(HANDOFF_COMPLETE_MSG),
      tail \in {<< >>, <<"X">>, <<"\n">>, <<NUL>>} }
    \cup { [HANDOFF_COMPLETE_MSG EXCEPT ![k] = b] :
             k \in DOMAIN HANDOFF_COMPLETE_MSG, b \in {"X", NUL} }

\* upgrade_with_fd_passing() after the new instance is forked and the old
\* process signalled: the socketpair with what the peer has written so far
InitHandoff ==
  /\ dir = << >>
  /\ components = << kernel_component >>
  /\ capabilities = early_registry
  /\ now = StartTime
  /\ next_pid = 1
  /\ alive = {}
  /\ zombies = {}
  /\ sigchld_pipe = FALSE
  /\ pc = "handoff"
  /\ events = {}
  /\ iterations = 0
  /\ exceeded = FALSE
  /\ start_callers = {}
  /\ stale = FALSE
  /\ proc = Supervisor(1)
  /\ graph_out = NoGraphCall
  /\ sock \in { [data |-> d, closed |-> FALSE] : d \in HandoffInputs }
  /\ handoff_out = NoHandoffCall
  /\ kexec = KexecIdle
  /\ checkpoints = {}
  /\ manifest_file = NoManifest

\* the peer calls send_handoff_complete() on its end of the socketpair
SendComplete ==
  /\ pc = "handoff"
  /\ ~ sock.closed
  /\ Len(sock.data) + HANDOFF_COMPLETE_LEN <= MaxChannel
  /\ \E r \in {send_handoff_complete(sock)} :
       /\ sock' = r.sock
       /\ handoff_out' = [fn |-> "send_handoff_complete", rc |-> r.rc, read |-> << >>]
  /\ UNCHANGED << core_vars, proc, graph_out, kexec, checkpoints, manifest_file >>

\* the peer exits or closes its end: the reader sees end of stream after
\* whatever is still queued
PeerCloses ==
  /\ pc = "handoff"
  /\ ~ sock.closed
  /\ sock' = [sock EXCEPT !.closed = TRUE]
  /\ UNCHANGED << core_vars, proc, graph_out, handoff_out, kexec, checkpoints,
                  manifest_file >>

\* the supervisor calls wait_handoff_complete(sock, timeout); the timeout
\* expires when the peer has written nothing by then
WaitComplete ==
  /\ pc = "handoff"
  /\ \E r \in {wait_handoff_complete(sock)} :
       /\ sock' = r.sock
       /\ handoff_out' = [fn |-> "wait_handoff_complete", rc |-> r.rc, read |-> r.read]
       /\ pc' = IF r.timeout THEN "timeout" ELSE "waited"
  /\ UNCHANGED << components, capabilities, dir, now, next_pid, alive, zombies,
                  sigchld_pipe, events, iterations, exceeded, start_callers, stale,
                  proc, graph_out, kexec, checkpoints, manifest_file >>

NextHandoff ==
  \/ SendComplete
  \/ PeerCloses
  \/ WaitComplete

SpecHandoff == InitHandoff /\ [][NextHandoff]_vars

\* ------------------------------------------------ kexec.c: live kernel upgrade
\* kexec.h: kexec_error_t
KEXEC_SUCCESS == 0
KEXEC_ERROR_INVALID_KERNEL == -1
KEXEC_ERROR_CHECKPOINT_FAILED == -2
KEXEC_ERROR_LOAD_FAILED == -3
KEXEC_ERROR_EXEC_FAILED == -4
KEXEC_ERROR_SYSTEM_BUSY == -6
KEXEC_ERROR_CHECKPOINT_STORAGE == -9

\* a checkpoint directory on disk: its path (the directory of the component's
\* name under CHECKPOINT_RUN_DIR) and whether the image files
\* checkpoint_validate_image() asks for are in it
CheckpointDir(path, valid) == [path |-> path, valid |-> valid]

\* checkpoint_create_directory() / criu dump write the directory of path
put_checkpoint(cps, path, valid) ==
  { c \in cps : c.path # path } \cup { CheckpointDir(path, valid) }

\* access(path, F_OK) == 0
checkpoint_exists(cps, path) == \E c \in cps : c.path = path

\* checkpoint_validate_image(path) == CHECKPOINT_SUCCESS
checkpoint_validate_image(cps, path) == \E c \in cps : c.path = path /\ c.valid

\* criu_checkpoint_process(pid, image_dir, 1) == CHECKPOINT_SUCCESS: the pid
\* is positive, the process exists and the dump itself does not fail
criu_checkpoint_process(pid, alv, dump_ok) == pid > 0 /\ pid \in alv /\ dump_ok

\* kexec_init(): sets the checkpoint root and creates it; fails when the
\* directory cannot be created
kexec_init(kx, mkdir_ok) ==
  IF kx.initialized THEN [kexec |-> kx, rc |-> KEXEC_SUCCESS]
  ELSE IF ~ mkdir_ok THEN [kexec |-> kx, rc |-> KEXEC_ERROR_CHECKPOINT_STORAGE]
  ELSE [kexec |-> [kx EXCEPT !.initialized = TRUE], rc |-> KEXEC_SUCCESS]

\* kexec_check_ready(): refuses while the subsystem is not initialised, then
\* the checks of privileges, engine, storage, syscall, utility and memory
kexec_check_ready(kx, ready) ==
  IF ~ kx.initialized THEN KEXEC_ERROR_SYSTEM_BUSY
  ELSE IF ~ ready THEN KEXEC_ERROR_SYSTEM_BUSY
  ELSE KEXEC_SUCCESS

\* kexec_checkpoint_all(), the loop being at slot i with the manifest entries
\* made so far: inactive slots are skipped; a directory is created for an
\* ACTIVE one and the process dumped into it; the first failure frees the
\* manifest and returns, the directories made so far staying where they are
RECURSIVE kexec_checkpoint_all(_, _, _, _, _, _)
kexec_checkpoint_all(comps, alv, cps, entries, i, env) ==
  IF i > Len(comps)
  THEN [rc |-> KEXEC_SUCCESS, entries |-> entries, checkpoints |-> cps]
  ELSE LET comp == comps[i]
       IN  IF comp.state # COMP_ACTIVE
           THEN kexec_checkpoint_all(comps, alv, cps, entries, i + 1, env)
           ELSE IF env.mkdir_fail = comp.name
           THEN [rc |-> KEXEC_ERROR_CHECKPOINT_FAILED, entries |-> << >>,
                 checkpoints |-> cps]
           ELSE IF ~ criu_checkpoint_process(comp.pid, alv, env.dump_fail # comp.name)
           THEN [rc |-> KEXEC_ERROR_CHECKPOINT_FAILED, entries |-> << >>,
                 checkpoints |-> put_checkpoint(cps, comp.name, FALSE)]
           ELSE kexec_checkpoint_all(
                  comps, alv,
                  put_checkpoint(cps, comp.name, comp.name \notin env.invalid),
                  Append(entries, [ component_name |-> comp.name,
                                    checkpoint_path |-> comp.name,
                                    original_pid |-> comp.pid,
                                    restore_priority |-> i - 1 ]),
                  i + 1, env)

\* a validate_all_checkpoints() for which no failure is critical
validate_all_checkpoints_lenient(comps, cps, entries) == KEXEC_SUCCESS

\* validate_all_checkpoints(): a missing path is critical; an image that
\* fails validation is critical when the first component of that name is a
\* service, and only counted otherwise
validate_all_checkpoints(comps, cps, entries) ==
  LET first(name) == CHOOSE j \in DOMAIN comps :
                       /\ comps[j].name = name
                       /\ \A k \in DOMAIN comps : comps[k].name = name => j <= k
      critical(e) ==
        \/ ~ checkpoint_exists(cps, e.checkpoint_path)
        \/ /\ ~ checkpoint_validate_image(cps, e.checkpoint_path)
           /\ \E j \in DOMAIN comps : comps[j].name = e.component_name
           /\ comps[first(e.component_name)].type = COMP_TYPE_SERVICE
  IN  IF \E k \in DOMAIN entries : critical(entries[k])
      THEN KEXEC_ERROR_CHECKPOINT_FAILED
      ELSE KEXEC_SUCCESS

\* the call returns rc, the transition having stopped in phase failed
kexec_returns(kx, cps, mf, rc, failed) ==
  [ kexec |-> [kx EXCEPT !.fn = "kexec_perform", !.rc = rc, !.failed = failed],
    checkpoints |-> cps, manifest_file |-> mf ]

\* kexec_perform(kernel_path, initrd_path, cmdline, flags): validation, the
\* dry-run return, checkpoint-all, checkpoint validation, the manifest file,
\* the kernel load, the execute. Every failure returns its code at once. The
\* execute does not return when it succeeds: the new kernel runs, and the old
\* supervisor with its static state is gone
kexec_perform(comps, alv, kx, cps, mf, env) ==
  IF ~ env.kernel_ok
  THEN kexec_returns(kx, cps, mf, KEXEC_ERROR_INVALID_KERNEL, "validation")
  ELSE IF kexec_check_ready(kx, env.ready) # KEXEC_SUCCESS
  THEN kexec_returns(kx, cps, mf, kexec_check_ready(kx, env.ready), "validation")
  ELSE IF env.dry_run
  THEN kexec_returns(kx, cps, mf, KEXEC_SUCCESS, "")
  ELSE LET all == kexec_checkpoint_all(comps, alv, cps, << >>, 1, env)
           saved == [exists |-> TRUE, entries |-> all.entries]
       IN  IF all.rc # KEXEC_SUCCESS
           THEN kexec_returns(kx, all.checkpoints, mf, all.rc, "checkpoint-all")
           ELSE IF validate_all_checkpoints(comps, all.checkpoints, all.entries)
                     # KEXEC_SUCCESS
           THEN kexec_returns(kx, all.checkpoints, mf, KEXEC_ERROR_CHECKPOINT_FAILED,
                              "checkpoint-validation")
           ELSE IF ~ env.save_ok
           THEN kexec_returns(kx, all.checkpoints, mf,
                              KEXEC_ERROR_CHECKPOINT_STORAGE, "manifest")
           ELSE IF ~ env.load_ok
           THEN kexec_returns(kx, all.checkpoints, saved,
                              KEXEC_ERROR_LOAD_FAILED, "load")
           ELSE IF ~ env.exec_ok
           THEN kexec_returns([kx EXCEPT !.loaded = TRUE], all.checkpoints, saved,
                              KEXEC_ERROR_EXEC_FAILED, "execute")
           ELSE kexec_returns([kx EXCEPT !.kernel = "new", !.loaded = FALSE,
                                         !.initialized = FALSE],
                              all.checkpoints, saved, KEXEC_SUCCESS, "")

\* what the environment does to one kexec_perform() call
KexecEnvs(names) ==
  [ dry_run : BOOLEAN, kernel_ok : BOOLEAN, ready : BOOLEAN,
    mkdir_fail : {""}, dump_fail : names \cup {""}, invalid : SUBSET names,
    save_ok : BOOLEAN, load_ok : BOOLEAN, exec_ok : BOOLEAN ]
    \cup
  [ dry_run : {FALSE}, kernel_ok : {TRUE}, ready : {TRUE},
    mkdir_fail : names, dump_fail : {""}, invalid : {{}},
    save_ok : {TRUE}, load_ok : {TRUE}, exec_ok : {TRUE} ]

\* component_start() on each slot of idxs in turn, pids counted from pid
RECURSIVE StartEach(_, _, _, _, _)
StartEach(comps, caps, idxs, t, pid) ==
  IF idxs = << >> THEN [components |-> comps, capabilities |-> caps, next_pid |-> pid]
  ELSE LET r == component_start(comps, caps, Head(idxs), t, pid)
       IN  StartEach(r.components, r.capabilities, Tail(idxs), t, pid + 1)

\* the increasing sequence of the members of a set of slots
RECURSIVE SlotSeq(_)
SlotSeq(S) ==
  IF S = {} THEN << >>
  ELSE LET m == CHOOSE x \in S : \A y \in S : x <= y
       IN  << m >> \o SlotSeq(S \ {m})

\* The tables kexec.c reads through components[] and n_components: the
\* declarations of a directory, loaded behind the kernel pseudo-component of
\* register_early_capabilities() or on their own, any of them started
InitKexec ==
  /\ dir \in InitDirs
  /\ \E prefix \in {<< >>, << kernel_component >>}, started \in SUBSET (1 .. 2) :
       \E t \in {StartEach(prefix \o load_components(dir),
                           IF prefix = << >> THEN << >> ELSE early_registry,
                           SlotSeq({Len(prefix) + k : k \in started}),
                           StartTime, 2)} :
         /\ components = t.components
         /\ capabilities = t.capabilities
         /\ next_pid = t.next_pid
         /\ alive = 2 .. (t.next_pid - 1)
  /\ now = StartTime
  /\ zombies = {}
  /\ sigchld_pipe = FALSE
  /\ pc = "kexec"
  /\ events = {}
  /\ iterations = 0
  /\ exceeded = FALSE
  /\ start_callers = {}
  /\ stale = FALSE
  /\ proc = Supervisor(1)
  /\ graph_out = NoGraphCall
  /\ sock = NoSock
  /\ handoff_out = NoHandoffCall
  /\ kexec = KexecIdle
  /\ checkpoints = {}
  /\ manifest_file = NoManifest

\* kexec_init() is called
KexecInit ==
  /\ pc = "kexec"
  /\ \E mkdir_ok \in BOOLEAN :
       \E r \in {kexec_init(kexec, mkdir_ok)} :
         kexec' = [r.kexec EXCEPT !.fn = "kexec_init", !.rc = r.rc, !.failed = ""]
  /\ UNCHANGED << core_vars, proc, graph_out, sock, handoff_out, checkpoints,
                  manifest_file >>

\* the control command "kexec [--dry-run] <kernel>" calls kexec_perform();
\* when the execute succeeds the new kernel takes over and every process of
\* the old one is gone
KexecPerform ==
  /\ pc = "kexec"
  /\ \E env \in KexecEnvs({components[k].name : k \in DOMAIN components}) :
       \E r \in {kexec_perform(components, alive, kexec, checkpoints,
                               manifest_file, env)} :
         /\ kexec' = r.kexec
         /\ checkpoints' = r.checkpoints
         /\ manifest_file' = r.manifest_file
         /\ pc' = IF r.kexec.kernel = "new" THEN "new-kernel" ELSE pc
         /\ alive' = IF r.kexec.kernel = "new" THEN {} ELSE alive
         /\ proc' = IF r.kexec.kernel = "new"
                    THEN [proc EXCEPT !.status = "replaced"] ELSE proc
  /\ UNCHANGED << components, capabilities, dir, now, next_pid, zombies,
                  sigchld_pipe, events, iterations, exceeded, start_callers, stale,
                  graph_out, sock, handoff_out >>

NextKexec ==
  \/ KexecInit
  \/ KexecPerform

SpecKexec == InitKexec /\ [][NextKexec]_vars

\* ------------------------------------------- resume after a kernel transition
\* the manifest kexec_save_manifest() wrote for the started components
\* `slots` of a directory before the new kernel was executed, entry k having
\* restore_priority k - 1
RECURSIVE ManifestOf(_, _, _)
ManifestOf(d, slots, entries) ==
  IF slots = << >> THEN [exists |-> TRUE, entries |-> entries]
  ELSE ManifestOf(d, Tail(slots),
                  Append(entries, [ component_name |-> d[Head(slots)].name,
                                    checkpoint_path |-> d[Head(slots)].name,
                                    original_pid |-> Head(slots) + 1,
                                    restore_priority |-> Head(slots) - 1 ]))

\* main() starts as PID 1 of the new kernel: no process of the old kernel is
\* left, the manifest and the checkpoint directories it names are on disk
InitResume ==
  /\ dir \in MainDirs
  /\ components = << >>
  /\ capabilities = << >>
  /\ now = StartTime
  /\ next_pid = 1
  /\ alive = {}
  /\ zombies = {}
  /\ sigchld_pipe = FALSE
  /\ pc = "init"
  /\ events = {}
  /\ iterations = 0
  /\ exceeded = FALSE
  /\ start_callers = {}
  /\ stale = FALSE
  /\ proc = Supervisor(1)
  /\ graph_out = NoGraphCall
  /\ sock = NoSock
  /\ handoff_out = NoHandoffCall
  /\ kexec = [KexecIdle EXCEPT !.kernel = "new"]
  /\ \E slots \in (SUBSET DOMAIN dir) \ {{}} :
       /\ manifest_file = ManifestOf(dir, SlotSeq(slots), << >>)
       /\ checkpoints = { CheckpointDir(dir[k].name, TRUE) : k \in slots }

SpecResume == InitResume /\ [][NextMain]_vars

\* --------------------------------------------- the registry on its own
\* the names registered and withdrawn, and the slots that provide them
RegistryNames == {"a", "b", "c"}
RegistryProviders == {1, 2}

\* how many slots short of MAX_CAPABILITIES the large registry starts
RegistryRoom == 2

\* a registry of n capabilities, each provided by slot 1
Filled(n) ==
  [ k \in 1 .. n |-> [ name |-> ToString(k), active |-> TRUE, degraded |-> FALSE,
                       provider_idx |-> 1 ] ]

\* capability_init(), or a registry that many declarations have filled up to
\* a few slots short of its capacity
InitRegistry ==
  /\ dir = << >>
  /\ components = << >>
  /\ capabilities \in { << >>, Filled(MAX_CAPABILITIES - RegistryRoom) }
  /\ now = StartTime
  /\ next_pid = 1
  /\ alive = {}
  /\ zombies = {}
  /\ sigchld_pipe = FALSE
  /\ pc = "registry"
  /\ events = {}
  /\ iterations = 0
  /\ exceeded = FALSE
  /\ start_callers = {}
  /\ stale = FALSE
  /\ ExtIdle

\* capability_register(name, provider_idx) is called
Register ==
  /\ pc = "registry"
  /\ \E name \in RegistryNames, p \in RegistryProviders :
       capabilities' = capability_register(capabilities, name, p)
  /\ UNCHANGED << components, dir, now, next_pid, alive, zombies, sigchld_pipe, pc,
                  events, iterations, exceeded, start_callers, stale, ext_vars >>

\* capability_withdraw(name) is called
Withdraw ==
  /\ pc = "registry"
  /\ \E name \in RegistryNames :
       capabilities' = capability_withdraw(capabilities, name)
  /\ UNCHANGED << components, dir, now, next_pid, alive, zombies, sigchld_pipe, pc,
                  events, iterations, exceeded, start_callers, stale, ext_vars >>

NextRegistry ==
  \/ Register
  \/ Withdraw

SpecRegistry == InitRegistry /\ [][NextRegistry]_vars

\* -------------------------------------------------------------- properties
\* slot k provides capability c
Provides(k, c) == c \in Range(components[k].provides)

\* C1: every component that is ACTIVE or ONESHOT_DONE has every capability
\* of its provides[] registered and active (an upgrade is a single step of
\* the model, so no state lies inside one).
C1_ActiveProvides ==
  \A k \in DOMAIN components :
    components[k].state \in {COMP_ACTIVE, COMP_ONESHOT_DONE}
      => \A c \in Range(components[k].provides) : capability_active(capabilities, c)

\* C2: for every component that is INACTIVE, STARTING, READY_WAIT or FAILED,
\* no capability of its provides[] is active with that component as provider.
C2_NotRunningPublishesNothing ==
  \A k \in DOMAIN components :
    components[k].state \in {COMP_INACTIVE, COMP_STARTING, COMP_READY_WAIT, COMP_FAILED}
      => \A x \in DOMAIN capabilities :
           ~ ( /\ Provides(k, capabilities[x].name)
               /\ capabilities[x].active
               /\ capabilities[x].provider_idx = k )

\* C3: whenever main() is in the event loop with the current wake source
\* handled (blocked in epoll_wait or between two handlers), every capability
\* required by an ACTIVE component is active.
C3_ActiveRequirementsMet ==
  pc # "resolve"
    => \A k \in DOMAIN components :
         components[k].state = COMP_ACTIVE
           => requirements_met(capabilities, components[k])

\* C4: a component's pid field holds a process id (is not -1) if and only if
\* its state is STARTING, READY_WAIT, ACTIVE or DEGRADED.
C4_PidIffRunning ==
  \A k \in DOMAIN components :
    (components[k].pid # -1)
      <=> components[k].state \in
            {COMP_STARTING, COMP_READY_WAIT, COMP_ACTIVE, COMP_DEGRADED}

\* C5: while a oneshot has been started and its process has not exited, none
\* of its provides[] is active and no component requiring one of them has a
\* running process.
C5_OneshotPublishesOnExit ==
  \A k \in DOMAIN components :
    ( /\ components[k].type = COMP_TYPE_ONESHOT
      /\ components[k].state = COMP_ACTIVE
      /\ components[k].pid \in alive )
      => \A c \in Range(components[k].provides) :
           /\ ~ capability_active(capabilities, c)
           /\ \A j \in DOMAIN components :
                c \in Range(components[j].requires) => components[j].pid \notin alive

\* C6: when the first graph_resolve_full() has returned on an acyclic graph
\* of services without readiness methods whose requirements are all provided,
\* every component is ACTIVE and every provided capability is active, in
\* every table order.
C6_BootAllActive ==
  pc = "wait"
    => \A k \in DOMAIN components :
         /\ components[k].state = COMP_ACTIVE
         /\ \A c \in Range(components[k].provides) : capability_active(capabilities, c)

\* a boot that has returned on a table in which some component stands before
\* a provider it depends on
C6_Witness ==
  /\ pc = "wait"
  /\ \E x, y \in DOMAIN dir : x < y /\ DependsOn(dir, x, y)
  /\ \A k \in DOMAIN components : components[k].state = COMP_ACTIVE

C8_OnlyResolverStarts == start_callers \subseteq {"graph_resolve"}

\* the state in which the current graph_resolve() pass visits slot i
VisitState(i) == resolve_range(PassStart, 1, i - 1, now)

\* C9: a pass visiting an ACTIVE component with an inactive requirement marks
\* it FAILED, withdraws every capability of its provides[] and counts one
\* change, touching no other slot; an ACTIVE component whose requirements are
\* all active is left as it is.
C9_ActiveVisit ==
  pc = "resolve"
    => \A i \in DOMAIN components :
         LET st == VisitState(i)
             comp == st.components[i]
             r == resolve_visit(st, i, now)
         IN  comp.state = COMP_ACTIVE
               => IF requirements_met(st.capabilities, comp)
                  THEN r = st
                  ELSE /\ r.components = [st.components EXCEPT ![i].state = COMP_FAILED]
                       /\ \A c \in Range(comp.provides) :
                            ~ capability_active(r.capabilities, c)
                       /\ \A x \in DOMAIN st.capabilities :
                            st.capabilities[x].name \notin Range(comp.provides)
                              => r.capabilities[x] = st.capabilities[x]
                       /\ r.changes = st.changes + 1
                       /\ r.next_pid = st.next_pid /\ r.alive = st.alive

\* a pass is about to visit an ACTIVE provider of an active capability, one
\* of whose requirements is inactive
C9_Witness ==
  /\ pc = "resolve"
  /\ \E i \in DOMAIN components :
       LET st == VisitState(i)
       IN  /\ st.components[i].state = COMP_ACTIVE
           /\ ~ requirements_met(st.capabilities, st.components[i])
           /\ \E c \in Range(st.components[i].provides) :
                capability_active(st.capabilities, c)

\* C10: main() does not block in epoll_wait again after a handler or the
\* tick changed a component state or a capability, unless a
\* graph_resolve_full() has completed since.
C10_ResolveBeforeBlocking == pc = "wait" => ~ stale

\* slot b requires a capability that slot a provides
Requires(b, a) == Range(components[b].requires) \cap Range(components[a].provides) # {}

\* C11: with A providing a behind a readiness file and B requiring a: when the
\* boot-time graph_resolve_full() returns with the file absent, A is
\* READY_WAIT, a is not active and B is INACTIVE; and a turn of the event loop
\* whose tick sees the file before the timeout leaves A ACTIVE, a active and
\* B started and ACTIVE.
C11_ReadinessGate ==
  [][ \A a, b \in DOMAIN components :
        ( components[a].readiness_method = READINESS_FILE /\ Requires(b, a) )
          => /\ ( /\ pc = "resolve" /\ pc' = "wait" /\ next_pid' = 2
                  /\ components'[a].state = COMP_READY_WAIT )
                  => /\ \A c \in Range(components[a].provides) :
                          ~ capability_active(capabilities', c)
                     /\ components'[b].state = COMP_INACTIVE
             /\ ( /\ pc = "wait" /\ pc' = "wait"
                  /\ components[a].state = COMP_READY_WAIT
                  /\ components[b].state = COMP_INACTIVE
                  /\ components'[a].state = COMP_ACTIVE
                  /\ requirements_met(capabilities', components[b]) )
                  => /\ \A c \in Range(components[a].provides) :
                          capability_active(capabilities', c)
                     /\ components'[b].state = COMP_ACTIVE
    ]_vars

\* the readiness timeout a declaration asks for: 30 seconds when it declares
\* zero
DeclaredTimeout(comp) ==
  IF comp.readiness_timeout = 0 THEN 30 ELSE comp.readiness_timeout

\* C12: a tick d seconds from now fails a READY_WAIT component exactly when
\* it has then been in READY_WAIT for longer than its declared readiness
\* timeout, counted from the moment it entered READY_WAIT; it is then FAILED
\* and its process has been sent SIGTERM.
C12_ReadinessTimeout ==
  pc = "wait"
    => \A d \in TimeSteps :
       \A ready \in SUBSET {k \in DOMAIN components :
                              components[k].state = COMP_READY_WAIT} :
         LET r == check_all_readiness(components, capabilities, 1, now + d, ready)
         IN  \A k \in DOMAIN components :
               components[k].state = COMP_READY_WAIT
                 => LET late == now + d - components[k].ready_wait_start
                                  > DeclaredTimeout(components[k])
                    IN  /\ late <=> ( /\ r.components[k].state = COMP_FAILED
                                      /\ components[k].pid \in r.killed )
                        /\ ~ late => r.components[k].state # COMP_FAILED

\* C13: a component that becomes or stays DEGRADED keeps every capability
\* it provides active, and a graph_resolve() pass leaves ACTIVE every
\* component whose requirements are all provided by DEGRADED components.
C13_DegradedKeepsCapabilities ==
  [][ \A k \in DOMAIN components :
        ( /\ components[k].state \in {COMP_ACTIVE, COMP_DEGRADED}
          /\ components'[k].state = COMP_DEGRADED )
          => /\ \A c \in Range(components[k].provides) :
                  capability_active(capabilities, c) => capability_active(capabilities', c)
             /\ \A b \in DOMAIN components :
                  ( /\ pc = "resolve"
                    /\ components[b].state = COMP_ACTIVE
                    /\ components[b].requires # << >>
                    /\ Range(components[b].requires) \subseteq Range(components[k].provides) )
                    => components'[b].state = COMP_ACTIVE
    ]_vars

\* the non-empty sequences of failing health-check results (failure or
\* timeout) of length at most n
RECURSIVE FailureRuns(_)
FailureRuns(n) ==
  IF n = 0 THEN {}
  ELSE LET shorter == FailureRuns(n - 1)
       IN  {<<x>> : x \in HealthResults \ {0}}
             \cup shorter \cup {Append(q, x) : q \in shorter, x \in HealthResults \ {0}}

\* handle_health_result(idx, .) applied to the results of consecutive probes
RECURSIVE health_run(_, _, _, _, _)
health_run(comps, caps, idx, results, t) ==
  IF results = << >> THEN [components |-> comps, capabilities |-> caps, killed |-> {}]
  ELSE LET r == handle_health_result(comps, caps, idx, Head(results), t)
           rest == health_run(r.components, r.capabilities, idx, Tail(results), t)
       IN  [rest EXCEPT !.killed = @ \cup r.killed]

\* C14: from an ACTIVE component with no failure counted and thresholds
\* F < R, k consecutive failing health checks (failures or timeouts) leave it
\* ACTIVE for k < F, DEGRADED with its capabilities still active for
\* F <= k < R, and at k = R FAILED with its capabilities withdrawn, its
\* process sent SIGTERM and the counter back at zero; a passing check after
\* k < R failures resets the counter and leaves the component ACTIVE.
C14_HealthEscalation ==
  \A k \in DOMAIN components :
    LET c == components[k]
        F == c.health_fail_threshold
        R == c.health_restart_threshold
    IN  ( /\ c.health_check /\ c.state = COMP_ACTIVE
          /\ c.health_consecutive_failures = 0 /\ F < R )
          => \A fs \in FailureRuns(R) :
               LET n == Len(fs)
                   r == health_run(components, capabilities, k, fs, now)
                   rc == r.components[k]
                   p == handle_health_result(r.components, r.capabilities, k, 0, now)
               IN  /\ n < F => /\ rc.state = COMP_ACTIVE
                               /\ rc.health_consecutive_failures = n
                               /\ r.killed = {}
                   /\ (F <= n /\ n < R)
                        => /\ rc.state = COMP_DEGRADED
                           /\ rc.health_consecutive_failures = n
                           /\ r.killed = {}
                           /\ \A x \in Range(c.provides) :
                                capability_active(capabilities, x)
                                  => capability_active(r.capabilities, x)
                   /\ n = R => /\ rc.state = COMP_FAILED
                               /\ rc.health_consecutive_failures = 0
                               /\ r.killed = {c.pid}
                               /\ \A x \in Range(c.provides) :
                                    ~ capability_active(r.capabilities, x)
                   /\ n < R => /\ p.components[k].state = COMP_ACTIVE
                               /\ p.components[k].health_consecutive_failures = 0

\* a component that real probes have taken through more failures than its
\* fail threshold: DEGRADED and one failure away from its restart threshold
C14_Witness ==
  \E k \in DOMAIN components :
    /\ components[k].state = COMP_DEGRADED
    /\ components[k].health_consecutive_failures > components[k].health_fail_threshold
    /\ components[k].health_consecutive_failures + 1 = components[k].health_restart_threshold

RestartGaps == {5, 40}

\* component_start(idx) attempted after each gap of gaps in turn, from time
\* t on; hist holds the times of the starts that spawned a process.  TRUE
\* when every attempt is refused exactly when hist holds at least five starts
\* of which the fifth last is at most 30 seconds old, and a refusal spawns
\* nothing and leaves the table as it was.
RECURSIVE start_run(_, _, _, _, _, _)
start_run(comps, caps, idx, t, gaps, hist) ==
  IF gaps = << >> THEN TRUE
  ELSE LET t2 == t + Head(gaps)
           r == component_start(comps, caps, idx, t2, 1)
           refused == r.rc = -1
           five == Len(hist) >= 5 /\ t2 - hist[Len(hist) - 4] <= 30
       IN  /\ refused <=> five
           /\ refused => (~ r.forked /\ r.components = comps /\ r.capabilities = caps)
           /\ start_run(r.components, r.capabilities, idx, t2, Tail(gaps),
                        IF refused THEN hist ELSE Append(hist, t2))

\* C17: component_start() refuses, spawning nothing and leaving the
\* component as it is, exactly when the component's last five restarts all
\* happened within the preceding 30 seconds; older restarts never count.
\* Checked on every run of MaxRestarts start attempts that follows a state of
\* the boot, fork() succeeding.
C17_RateLimit ==
  \A k \in DOMAIN components :
    components[k].name # "kernel"
      => \A gaps \in [1 .. MaxRestarts -> RestartGaps] :
           start_run(components, capabilities, k, now, gaps,
                     IF components[k].restart_count = 0 THEN << >>
                     ELSE << components[k].last_restart >>)

\* the declared part of a table: what load_components() read for each slot
Declared(comps) ==
  [k \in DOMAIN comps |->
     [name |-> comps[k].name, type |-> comps[k].type,
      requires |-> comps[k].requires, provides |-> comps[k].provides]]

\* the step is a run of handle_inotify() up to its graph_resolve_full()
ReloadStep ==
  /\ pc = "events"
  /\ "inotify" \in events
  /\ "inotify" \notin events'

\* C18: a reload that finds a cyclic declaration set while the table in use
\* is acyclic keeps the table in use: the declarations of the table after
\* the reload are those of the table before it, and no slot is added.
C18_CyclicReloadKeepsGraph ==
  [][ ( ReloadStep /\ Acyclic(components) /\ ~ Acyclic(dir) )
        => Declared(components') = Declared(components) ]_vars

\* C19: handle_inotify() preserves, for every component whose name is in the
\* table before and after it, pid, state, restart count, last-restart time,
\* READY_WAIT start time, consecutive health-failure count and last
\* health-check time.
C19_ReloadKeepsRuntime ==
  [][ ReloadStep
        => \A i \in DOMAIN components', j \in DOMAIN components :
             components'[i].name = components[j].name
               => /\ components'[i].pid = components[j].pid
                  /\ components'[i].state = components[j].state
                  /\ components'[i].restart_count = components[j].restart_count
                  /\ components'[i].last_restart = components[j].last_restart
                  /\ components'[i].ready_wait_start = components[j].ready_wait_start
                  /\ components'[i].health_consecutive_failures
                       = components[j].health_consecutive_failures
                  /\ components'[i].last_health_check = components[j].last_health_check
    ]_vars

\* the tiers of component_upgrade() in their order
TierRank(tier) ==
  CASE tier = "checkpoint" -> 1 [] tier = "fd-passing" -> 2 [] tier = "restart" -> 3

\* C20: component_upgrade() on an ACTIVE component calls the tiers in the
\* order checkpoint, fd-passing, restart only: the checkpoint tier is called
\* only for handoff = checkpoint with criu supported, every tier but the last
\* called has failed and is followed by the tier next in order, and the call
\* returns 0 exactly when the last tier called succeeded.
C20_TierOrder ==
  ( pc = "events" /\ "control" \in events )
    => \A name \in ControlNames, criu \in CriuOutcomes, fd \in FdOutcomes :
         LET idx == component_index(components, name)
             r == component_upgrade(ControlStart, name, now, criu, fd)
             n == Len(r.tiers)
         IN  ( idx > 0 /\ components[idx].state = COMP_ACTIVE )
               => /\ n >= 1
                  /\ \A i \in 1 .. n :
                       r.tiers[i][1] = "checkpoint"
                         => ( components[idx].handoff = HANDOFF_CHECKPOINT
                              /\ criu # "unsupported" )
                  /\ ( components[idx].handoff = HANDOFF_CHECKPOINT /\ criu # "unsupported" )
                       => r.tiers[1][1] = "checkpoint"
                  /\ \A i \in 1 .. n - 1 :
                       /\ ~ r.tiers[i][2]
                       /\ TierRank(r.tiers[i + 1][1]) = TierRank(r.tiers[i][1]) + 1
                  /\ ( r.tiers[n][2] \/ r.tiers[n][1] = "restart" )
                  /\ (r.rc = 0) <=> r.tiers[n][2]

\* a client request is about to be read while A, declared with
\* handoff = checkpoint, is ACTIVE and its process is running
C20_Witness ==
  /\ pc = "events"
  /\ "control" \in events
  /\ \E k \in DOMAIN components :
       /\ components[k].name \in ControlNames
       /\ components[k].handoff = HANDOFF_CHECKPOINT
       /\ components[k].state = COMP_ACTIVE
       /\ components[k].pid \in alive


\* C21: a component_upgrade() that returns failure leaves the component record
\* with the pid and the state it had when the upgrade was requested.
C21_FailedUpgradeRollsBack ==
  ( pc = "events" /\ "control" \in events )
    => \A name \in ControlNames, criu \in CriuOutcomes, fd \in FdOutcomes :
         LET idx == component_index(components, name)
             r == component_upgrade(ControlStart, name, now, criu, fd)
         IN  ( idx > 0 /\ r.rc # 0 )
               => /\ r.components[idx].pid = components[idx].pid
                  /\ r.components[idx].state = components[idx].state


\* C22: for an ACTIVE component with handoff = checkpoint and readiness = none
\* whose process runs, while criu is unsupported and the fd-passing handoff
\* completes with a process to fork: the upgrade does not call the checkpoint
\* tier, returns 0 from the fd-passing tier as the only tier called, leaves the
\* component ACTIVE with a pid other than the old one, withdraws nothing (every
\* capability active before is active after) and ends with every capability
\* the component provides active under its own slot.
C22_CheckpointUnsupported ==
  ( pc = "events" /\ "control" \in events )
    => \A name \in ControlNames :
         LET idx == component_index(components, name)
             r == component_upgrade(ControlStart, name, now, "unsupported", "ok")
         IN  ( /\ idx > 0
               /\ components[idx].state = COMP_ACTIVE
               /\ components[idx].handoff = HANDOFF_CHECKPOINT
               /\ components[idx].readiness_method = READINESS_NONE
               /\ components[idx].pid \in alive
               /\ fork(next_pid) >= 0 )
               => /\ r.tiers = << <<"fd-passing", TRUE>> >>
                  /\ r.rc = 0
                  /\ r.components[idx].state = COMP_ACTIVE
                  /\ r.components[idx].pid # components[idx].pid
                  /\ r.components[idx].pid \in r.alive
                  /\ \A k \in DOMAIN capabilities :
                       capabilities[k].active
                         => capability_active(r.capabilities, capabilities[k].name)
                  /\ \A c \in Range(components[idx].provides) :
                       capability_active(r.capabilities, c)

\* a client request is about to be read while A, declared with
\* handoff = checkpoint and readiness = none, is ACTIVE with its capability
\* published, its process runs and a further process can be forked
C22_Witness ==
  /\ pc = "events"
  /\ "control" \in events
  /\ fork(next_pid) >= 0
  /\ \E k \in DOMAIN components :
       /\ components[k].name \in ControlNames
       /\ components[k].handoff = HANDOFF_CHECKPOINT
       /\ components[k].readiness_method = READINESS_NONE
       /\ components[k].state = COMP_ACTIVE
       /\ components[k].pid \in alive
       /\ \A c \in Range(components[k].provides) : capability_active(capabilities, c)


\* the induced graph of the table has a directed cycle: some component
\* reaches itself along one or more edges
InducedCycle(comps) == \E x \in DOMAIN comps : x \in ReachableFrom(comps, {x}, {})

\* C24: graph_detect_cycles() returns 1 exactly when the induced graph (an
\* edge from x to y when x requires a capability y provides) has a directed
\* cycle, and 0 otherwise; a component requiring a capability it provides is
\* reported; the components reported form a closed walk of the graph.
C24_DetectCycles ==
  graph_out.fn = "graph_detect_cycles"
    => /\ graph_out.rc = (IF InducedCycle(components) THEN 1 ELSE 0)
       /\ (\E x \in DOMAIN components : DependsOn(components, x, x))
            => graph_out.rc = 1
       /\ graph_out.rc = 1
            => /\ Len(graph_out.out) >= 2
               /\ graph_out.out[1] = graph_out.out[Len(graph_out.out)]
               /\ \A k \in 1 .. Len(graph_out.out) - 1 :
                    DependsOn(components, graph_out.out[k], graph_out.out[k + 1])

\* the detection has reported a cycle on a table with a component that
\* requires a capability it provides
C24_Witness ==
  /\ graph_out.fn = "graph_detect_cycles"
  /\ graph_out.rc = 1
  /\ \E x \in DOMAIN components : DependsOn(components, x, x)

\* the position of component x in the order s
PositionIn(s, x) == CHOOSE k \in DOMAIN s : s[k] = x

\* C25: on a table whose induced graph is acyclic graph_topological_sort()
\* returns 0 and an order that holds every component exactly once and in
\* which each provider comes before every component that requires one of its
\* capabilities.
C25_TopologicalOrder ==
  ( graph_out.fn = "graph_topological_sort" /\ ~ InducedCycle(components) )
    => /\ graph_out.rc = 0
       /\ Len(graph_out.out) = n_components
       /\ Range(graph_out.out) = DOMAIN components
       /\ \A x, y \in DOMAIN components :
            DependsOn(components, x, y)
              => PositionIn(graph_out.out, y) < PositionIn(graph_out.out, x)


\* C23: running as PID 1 the supervisor never exits: once main() has left
\* its normal course (cgroup_init, pipe2, graph validation, epoll_create1 or
\* epoll_wait failed, or the shutdown sequence ended) the process has become
\* the first fallback shell whose execl() succeeded, or sleeps forever after
\* all three failed; a cyclic graph at boot never reaches the resolver.
C23_Pid1NeverExits ==
  proc.pid = 1
    => /\ proc.status # "exited"
       /\ pc = "halt"
            => /\ proc.fatal # ""
               /\ \/ /\ proc.status = "running"
                     /\ \E k \in DOMAIN EmergencyShells :
                          /\ proc.image = EmergencyShells[k]
                          /\ proc.failed_execs = {EmergencyShells[j] : j \in 1 .. k - 1}
                  \/ /\ proc.status = "sleeping"
                     /\ proc.image = "graph-resolver"
                     /\ proc.failed_execs = Range(EmergencyShells)
       /\ pc # "halt" => ( proc = Supervisor(1) /\ ~ InducedCycle(components) )

\* PID 1 sleeps forever: epoll_wait() failed and no fallback shell could be
\* executed
C23_Witness ==
  /\ proc.pid = 1
  /\ pc = "halt"
  /\ proc.fatal = "epoll_wait"
  /\ proc.status = "sleeping"


\* C26: wait_handoff_complete succeeds if and only if the bytes it read from
\* the channel are exactly the completion token HANDOFF_COMPLETE\n; a
\* timeout, end of stream, a partial token or other bytes give an error
C26_WaitComplete ==
  handoff_out.fn = "wait_handoff_complete"
    => (handoff_out.rc = 0 <=> handoff_out.read = HANDOFF_COMPLETE_MSG)


\* C27: when a phase of a kernel transition fails, kexec_perform returns with
\* the system on the current kernel and its components still running, and
\* the checkpoint directories and the manifest the attempt created are gone
\* (the call has no option to keep them)
C27_FailedTransitionCleansUp ==
  ( kexec.fn = "kexec_perform" /\ kexec.rc # KEXEC_SUCCESS )
    => /\ kexec.kernel = "current"
       /\ \A k \in DOMAIN components :
            ( components[k].state = COMP_ACTIVE /\ components[k].pid > 0 )
              => components[k].pid \in alive
       /\ checkpoints = {}
       /\ ~ manifest_file.exists


\* the step is a kexec_perform() call that wrote the manifest file: it got
\* past phase 5
ManifestPersisted ==
  /\ kexec'.fn = "kexec_perform"
  /\ kexec'.failed \in {"load", "execute"} \/ kexec'.kernel = "new"
  /\ manifest_file'.exists

\* the type of the component of that name in the table
TypeOf(name) ==
  { components[j].type : j \in { k \in DOMAIN components : components[k].name = name } }

C29_ResumeConsumesManifest ==
  pc \notin {"init", "load", "halt"}
    => /\ ~ manifest_file.exists
       /\ checkpoints = {}


\* no two entries of the registry have the same name
NoDuplicateNames(caps) ==
  Cardinality({ caps[k].name : k \in DOMAIN caps }) = Len(caps)

\* C30 as stated: register(name, p) makes the name active with provider p;
\* on a known name, active or withdrawn, it replaces the provider without a
\* second entry; the registry never holds two entries of one name
C30_Register ==
  /\ NoDuplicateNames(capabilities)
  /\ \A name \in RegistryNames, p \in RegistryProviders :
       LET r == capability_register(capabilities, name, p)
           idx == capability_index(r, name)
       IN  /\ capability_active(r, name)
           /\ idx > 0 /\ r[idx].provider_idx = p
           /\ capability_index(capabilities, name) > 0 => Len(r) = Len(capabilities)
           /\ NoDuplicateNames(r)

\* C30 (amended): the same, for a name that is known or a registry that has
\* a free slot; for an unknown name and a full registry the call changes
\* nothing and the name stays inactive
C30_RegisterWithinCapacity ==
  /\ NoDuplicateNames(capabilities)
  /\ \A name \in RegistryNames, p \in RegistryProviders :
       LET r == capability_register(capabilities, name, p)
           idx == capability_index(r, name)
           known == capability_index(capabilities, name) > 0
       IN  /\ NoDuplicateNames(r)
           /\ IF known \/ Len(capabilities) < MAX_CAPABILITIES
              THEN /\ capability_active(r, name)
                   /\ idx > 0 /\ r[idx].provider_idx = p
                   /\ known => /\ Len(r) = Len(capabilities)
                               /\ idx = capability_index(capabilities, name)
                   /\ \A k \in DOMAIN capabilities :
                        k # idx => r[k] = capabilities[k]
              ELSE /\ r = capabilities
                   /\ ~ capability_active(r, name)

\* a full registry in which "a", first registered by slot 1, is active with
\* provider 2, "b" is withdrawn and "c" is unknown
C30_Witness ==
  /\ Len(capabilities) = MAX_CAPABILITIES
  /\ NoDuplicateNames(capabilities)
  /\ capability_active(capabilities, "a")
  /\ capabilities[capability_index(capabilities, "a")].provider_idx = 2
  /\ capability_index(capabilities, "b") > 0
  /\ ~ capability_active(capabilities, "b")
  /\ capability_index(capabilities, "c") = 0

\* C31: the resolver never starts a component whose record still holds a
\* running process: a pass that puts a freshly forked pid into slot k does
\* so only when the pid the slot held before is not alive
C31_NoSecondProcess ==
  [][pc = "resolve" =>
       \A k \in DOMAIN components :
         (k \in DOMAIN components' /\ components'[k].pid \in alive' \ alive)
           => components[k].pid \notin alive]_vars

\* the kernel slot as register_early_capabilities() leaves it, with every
\* built-in capability active
KernelIntact(comps, caps) ==
  /\ Len(comps) >= 1
  /\ comps[1].name = "kernel"
  /\ comps[1].state = COMP_ACTIVE
  /\ comps[1].pid = 0
  /\ \A k \in DOMAIN early_caps : capability_active(caps, early_caps[k])

\* C32: the kernel component is ACTIVE with pid 0 and all built-in
\* capabilities active in every reachable state, and an upgrade request
\* naming it, handled in any state in which a client request is pending,
\* leaves it so, forks no process and calls no component_start
C32_KernelUntouched ==
  /\ KernelIntact(components, capabilities)
  /\ (pc = "events" /\ "control" \in events) =>
       \A criu \in CriuOutcomes, fd \in FdOutcomes :
         LET r == component_upgrade(ControlStart, "kernel", now, criu, fd)
         IN  /\ KernelIntact(r.components, r.capabilities)
             /\ r.next_pid = next_pid
             /\ r.alive = alive
             /\ ~ r.started

\* ------------------------------------- two declaration files, one name
\* GRAPH_DIR holding two .toml files whose `name` key is the same: the name
\* is read from the file's contents (toml.c), not from its file name, and
\* load_components() appends every file that parses
SameNameDirs ==
  { << Svc("A", << >>, <<"a">>), Svc("A", << >>, <<"b">>) >>,
    << Svc("A", << >>, <<"a">>), Svc("kernel", << >>, <<"b">>) >> }

InitSameName == Booted(SameNameDirs)

SpecSameName == InitSameName /\ [][Next]_vars

\* C33: no two component records share a name, and no two component records
\* hold the same process id
C33_UniqueNamesAndPids ==
  \A i, j \in DOMAIN components :
    i # j => /\ components[i].name # components[j].name
             /\ components[i].pid > 0 => components[i].pid # components[j].pid

\* C34: within one wake that reports both the self-pipe, with exited
\* children to reap, and a client request, the client request is not taken
\* while the self-pipe is still to be handled: reap_children() runs first
C34_ReapBeforeControl ==
  [][(pc = "events" /\ "sigchld" \in events /\ zombies # {}
        /\ "control" \in events)
       => "control" \in events']_vars

\* the slots a graph_resolve() pass entered in the current state starts
StartedByPass ==
  { k \in DOMAIN components :
      /\ components[k].state = COMP_INACTIVE
      /\ graph_resolve.components[k].state # COMP_INACTIVE }

\* C35: a graph_resolve() pass starts only components whose requirements
\* were active when the pass began; on the chain A, B, C (B requires A's
\* capability, C requires B's) loaded in this order, a pass entered with a
\* component still to start starts exactly one and reports one change, and
\* the pass entered with all three started reports zero changes
C35_OneLinkPerPass ==
  pc = "resolve" =>
    /\ \A k \in StartedByPass : requirements_met(capabilities, components[k])
    /\ dir = << Svc("A", << >>, <<"a">>), Svc("B", <<"a">>, <<"b">>),
                Svc("C", <<"b">>, <<"c">>) >>
         => IF \E k \in DOMAIN components : components[k].state = COMP_INACTIVE
            THEN Cardinality(StartedByPass) = 1 /\ graph_resolve.changes = 1
            ELSE graph_resolve.changes = 0

\* C36: when the fork() of component_start() fails, the component is marked
\* FAILED: for every INACTIVE slot whose requirements are met in a state in
\* which a resolver pass is about to run and no process can be forked, the
\* call returns -1 and leaves the slot FAILED
C36_ForkFailureMarksFailed ==
  (pc = "resolve" /\ fork(next_pid) < 0) =>
    \A k \in DOMAIN components :
      (components[k].state = COMP_INACTIVE
         /\ requirements_met(capabilities, components[k]))
        => LET r == component_start(components, capabilities, k, now,
                                    fork(next_pid))
           IN  /\ r.rc = -1
               /\ r.components[k].state = COMP_FAILED

\* C37: a reload of an unchanged declaration directory keeps the state and
\* the pid of every component and keeps every active capability active, and
\* when the graph was stable before it (a resolver pass would report no
\* change) the resolver pass that follows it reports no change either
C37_UnchangedReloadIsNoOp ==
  [][ ( ReloadStep /\ dir' = dir
          /\ Declared(components) = Declared(<< kernel_component >>
                                               \o load_components(dir)) )
        => /\ DOMAIN components' = DOMAIN components
           /\ \A k \in DOMAIN components :
                /\ components'[k].name = components[k].name
                /\ components'[k].state = components[k].state
                /\ components'[k].pid = components[k].pid
           /\ \A x \in DOMAIN capabilities :
                capability_active(capabilities, capabilities[x].name)
                  => capability_active(capabilities', capabilities[x].name)
           /\ graph_resolve.changes = 0 => graph_resolve'.changes = 0
    ]_vars

\* ------------------------------------ graph_resolve_full() on a bare table
\* The tables the unit tests of graph.c build by hand: n_components = 0,
\* capability_init(), then up to BootSize records made INACTIVE with pid -1
\* and no kernel slot (create_test_component)
TestTables == { SubSeq(d, 1, n) : d \in BootDirs, n \in 0 .. BootSize }

\* the state in which such a test calls graph_resolve_full()
InitTable ==
  /\ dir \in TestTables
  /\ components = load_components(dir)
  /\ capabilities = << >>
  /\ now = StartTime
  /\ next_pid = 1
  /\ alive = {}
  /\ zombies = {}
  /\ sigchld_pipe = FALSE
  /\ pc = "resolve"
  /\ events = {}
  /\ iterations = 0
  /\ exceeded = FALSE
  /\ start_callers = {}
  /\ stale = FALSE
  /\ ExtIdle

SpecTable == InitTable /\ [][ResolvePass]_vars

\* C38: graph_resolve_full() takes its "exceeded max iterations" branch only
\* when the pass it has just run reported changes
C38_ErrorOnlyAfterChanges ==
  [][ (pc = "resolve" /\ exceeded') => graph_resolve.changes > 0 ]_vars

\* C39: with the kernel record in the table (ACTIVE, pid 0), a checkpoint-all
\* phase in which no directory creation fails and every dump of a live
\* process succeeds, entered while every ACTIVE component that owns a
\* process has it running, returns success with no entry for the kernel
C39_KernelSlotSkipped ==
  ( /\ pc = "kexec"
    /\ Len(components) >= 1
    /\ components[1] = kernel_component
    /\ \A k \in DOMAIN components :
         (components[k].state = COMP_ACTIVE /\ components[k].pid > 0)
           => components[k].pid \in alive )
    => \A env \in KexecEnvs({components[k].name : k \in DOMAIN components}) :
         (env.mkdir_fail = "" /\ env.dump_fail = "")
           => LET r == kexec_checkpoint_all(components, alive, checkpoints,
                                            << >>, 1, env)
              IN  /\ r.rc = KEXEC_SUCCESS
                  /\ \A k \in DOMAIN r.entries :
                       r.entries[k].component_name # "kernel"

\* --------------------------------- checkpoint-mgmt.c: checkpoint directories
\* seconds of wall-clock time covered
StoreSeconds == 2

\* the components whose checkpoints are stored
StoreNames == {"A", "B"}

\* checkpoint_create_directory(component_name, persistent, ...) called at
\* time t: the id is time(NULL) printed with CHECKPOINT_ID_FORMAT "%ld", the
\* path is "<base>/<component>/<id>", and create_directory_path() makes the
\* directory, an existing one (EEXIST) being taken as made.  Yields the
\* return code, the two output buffers and the store.
checkpoint_create_directory(cps, component_name, persistent, t, mkdir_ok) ==
  LET checkpoint_id == ToString(t)
      base_dir == IF persistent THEN "/var/lib/graph/checkpoints"
                  ELSE "/run/graph/checkpoints"
      path == << base_dir, component_name, checkpoint_id >>
  IN  [ rc |-> IF mkdir_ok THEN 0 ELSE -1,
        checkpoint_id |-> checkpoint_id,
        path |-> path,
        checkpoints |->
          IF mkdir_ok /\ ~ checkpoint_exists(cps, path)
          THEN cps \cup { CheckpointDir(path, FALSE) }
          ELSE cps ]

\* checkpoint_init_storage() has run and no checkpoint has been taken
InitStore ==
  /\ components = << >>
  /\ capabilities = << >>
  /\ dir = << >>
  /\ now = StartTime
  /\ next_pid = 1
  /\ alive = {}
  /\ zombies = {}
  /\ sigchld_pipe = FALSE
  /\ pc = "store"
  /\ events = {}
  /\ iterations = 0
  /\ exceeded = FALSE
  /\ start_callers = {}
  /\ stale = FALSE
  /\ ExtIdle

\* a caller asks for a checkpoint directory
CreateDirectory ==
  /\ pc = "store"
  /\ \E name \in StoreNames, persistent \in BOOLEAN, mkdir_ok \in BOOLEAN :
       checkpoints' = checkpoint_create_directory(checkpoints, name, persistent,
                                                  now, mkdir_ok).checkpoints
  /\ UNCHANGED << core_vars, proc, graph_out, sock, handoff_out, kexec,
                  manifest_file >>

\* a second of wall-clock time passes
StoreTick ==
  /\ pc = "store"
  /\ now < StartTime + StoreSeconds
  /\ now' = now + 1
  /\ UNCHANGED << components, capabilities, dir, next_pid, alive, zombies,
                  sigchld_pipe, pc, events, iterations, exceeded,
                  start_callers, stale >>
  /\ UNCHANGED ext_vars

SpecStore == InitStore /\ [][CreateDirectory \/ StoreTick]_vars

\* C40: two successive successful checkpoint_create_directory() calls for one
\* component, the second made in the same second as the first or one second
\* later, return different ids and different directories
C40_UniqueIds ==
  pc = "store" =>
    \A name \in StoreNames, persistent \in BOOLEAN, d \in 0 .. 1 :
      LET r1 == checkpoint_create_directory(checkpoints, name, persistent,
                                            now, TRUE)
          r2 == checkpoint_create_directory(r1.checkpoints, name, persistent,
                                            now + d, TRUE)
      IN  /\ r1.rc = 0 /\ r2.rc = 0
          /\ r2.checkpoint_id # r1.checkpoint_id
          /\ r2.path # r1.path

====
